---- MODULE Spec2Model ----
(***************************************************************************)
(* Model of the OSSM BLE web client: the serial task queue                 *)
(* (src/src/helpers.ts, AsyncFunctionQueue) and the connection / command   *)
(* engine built on it (src/src/ossmBle.ts, the last OssmBle class of the   *)
(* file, lines 446-1453).                                                  *)
(*                                                                         *)
(* JavaScript runs to completion: a call of the public API is one atomic   *)
(* step, promise reactions (microtasks) run before any transport           *)
(* completion, timer or link event is delivered.  Steps of the             *)
(* environment are therefore guarded by ~MicrotaskPending.                 *)
(***************************************************************************)
EXTENDS Integers, Sequences, FiniteSets, TLC

\* ---------------------------------------------------------------- bounds
MaxUnits == 3
MaxGen == 3
MaxLoops == 2
MaxTicks == 1
MaxDirect == 1
TickMs == 6000
MaxCalls == 2       \* calls of the public API that are in progress together

\* ------------------------------------------------------ program constants
DISCONNECT_TIMEOUT_MS == 5000

VARIABLES
    bleTaskQueue,   \* the AsyncFunctionQueue: generation, currentAbort, chain, units
    autoReconnect,  \* OssmBle.autoReconnect
    isReady,        \* OssmBle.isReady
    ossmServices,   \* OssmBle.ossmServices: "null", "empty" ({}), "populated" (primary and its characteristics)
    connected,      \* device.gatt.connected
    lastPoll,       \* OssmBle.lastPoll (ms)
    now,            \* Date.now() (ms)
    loops,          \* running invocations of onDisconnected (the reconnect loops)
    direct,         \* transport exchanges in flight that were started outside the queue
    obs,            \* observations of the run, read by the properties only
    cachedState,        \* OssmBle.cachedState: the last adopted snapshot, <<>> for null
    pendingStateTarget, \* OssmBle.pendingStateTarget: entries in insertion order
    cachedPatternList,  \* OssmBle.cachedPatternList: <<>> for null, else <<list of ids>>
    lastFixedPosition,  \* OssmBle.lastFixedPosition: <<>> for null, else <<position>>
    calls,              \* calls of the public API of the session: in progress, or settled by the last step
    stateChanged,       \* the StateChanged events the last step dispatched
    pushes,             \* the status notification the last step delivered
    graph,              \* OSSM_PAGE_NAVIGATION_GRAPH: for each page the pages it leads to, in order
    patternHelper       \* the PatternHelper the application made last and what fromPlayData made of its play data

sessionVars == <<cachedState, pendingStateTarget, cachedPatternList, lastFixedPosition,
                 calls, stateChanged, pushes, graph>>
vars == <<bleTaskQueue, autoReconnect, isReady, ossmServices, connected, lastPoll, now, loops, direct, obs,
          cachedState, pendingStateTarget, cachedPatternList, lastFixedPosition,
          calls, stateChanged, pushes, graph, patternHelper>>
clientVars == <<autoReconnect, isReady, ossmServices, connected, lastPoll, now, loops, direct, obs>>

\* ------------------------------------------------------------------------
\* AsyncFunctionQueue (helpers.ts:54-130)
\*
\* A unit of work is one call of enqueue(); `units` lists the units that have
\* not settled, in the order they were enqueued.  `pred` is the unit whose
\* promise was `this.chain` when the unit was enqueued (0: that promise is
\* resolved).  status: queued (task not yet run), aborting (task threw at the
\* generation check, the rejection is still propagating), running (func
\* started and not settled), done (settled; dropped by the next step).
\* ------------------------------------------------------------------------
EmptyQueue ==
    [generation |-> 0, currentAbort |-> 0, chain |-> 0, units |-> << >>]

NewUnit(kind, owner, gen, pred) ==
    [kind |-> kind, owner |-> owner, capturedGeneration |-> gen, pred |-> pred,
     status |-> "queued", result |-> "none", stage |-> "none",
     signalled |-> FALSE, clearedIn |-> "none", linkLost |-> FALSE]

UnitIds(q) == DOMAIN q.units

Running(q) == {u \in DOMAIN q.units : q.units[u].status = "running"}

Settled(q) == {u \in DOMAIN q.units : q.units[u].status = "done"}

Unsettled(q) == DOMAIN q.units \ Settled(q)

\* the index of unit u once the units of `gone` are dropped (0: no unit)
Rank(gone, u) ==
    IF u = 0 \/ u \in gone THEN 0
    ELSE u - Cardinality({g \in gone : g < u})

\* The promises of `gone`, settled before this step, are dropped: a promise
\* chained on a settled one is chained on a resolved promise
\* (next.catch(() => {}), helpers.ts:116)
Collect(q, gone) ==
    LET kept == DOMAIN q.units \ gone
        Old(i) == CHOOSE u \in kept : Rank(gone, u) = i
    IN  IF gone = {} THEN q
        ELSE [q EXCEPT !.units = [i \in 1..Cardinality(kept) |->
                                [q.units[Old(i)] EXCEPT !.pred = Rank(gone, @)]],
                       !.chain = Rank(gone, @),
                       !.currentAbort = Rank(gone, @)]

\* chain.then(task): the task is run only when the earlier unit succeeded
Runnable_AfterSuccess(q, u) ==
    /\ q.units[u].status = "queued"
    /\ IF q.units[u].pred = 0 THEN TRUE
       ELSE /\ q.units[q.units[u].pred].status = "done"
            /\ q.units[q.units[u].pred].result = "ok"

\* the task of unit u is at the head of its chain: chain.then(task, task) fires
Runnable(q, u) ==
    /\ q.units[u].status = "queued"
    /\ IF q.units[u].pred = 0 THEN TRUE
       ELSE q.units[q.units[u].pred].status \in {"aborting", "done"}

NextGeneration_NoBump(g) == g

NextGeneration(g) == g + 1

IsStale_Never(captured, current) == FALSE

IsStale(captured, current) == captured # current

\* clearedIn records, for the properties, where a unit was when the queue was cleared
MarkCleared(unit) ==
    IF unit.clearedIn # "none" THEN unit
    ELSE IF unit.status = "queued" THEN [unit EXCEPT !.clearedIn = "queued"]
    ELSE IF unit.status = "running" THEN [unit EXCEPT !.clearedIn = "running"]
    ELSE unit

\* this.currentAbort?.abort(...): the abort event reaches the onAbort listener
\* that withTimeout registered (helpers.ts:69-74); a unit of plain enqueue() is
\* handed the signal and, in this program, never looks at it
Signal(q, units) ==
    [u \in DOMAIN units |->
        IF u = q.currentAbort /\ units[u].kind = "timed"
        THEN [units[u] EXCEPT !.signalled = TRUE]
        ELSE units[u]]

ClearQueue(q) ==
    [q EXCEPT !.generation = NextGeneration(@),
              !.units = Signal(q, [u \in DOMAIN @ |-> MarkCleared(@[u])]),
              !.chain = 0]

Enqueue(q, kind, owner) ==
    [q EXCEPT !.units = Append(@, NewUnit(kind, owner, q.generation, q.chain)),
              !.chain = Len(q.units) + 1]

AbortCurrent(q) ==
    [q EXCEPT !.units = Signal(q, @)]

\* the task function up to and including the call of func
StartTask(q, u) ==
    IF IsStale(q.units[u].capturedGeneration, q.generation)
    THEN [q EXCEPT !.units[u].status = "aborting"]
    ELSE [q EXCEPT !.units[u].status = "running",
                   !.currentAbort = u]

\* the rejection thrown by the generation check reaches the caller of enqueue
RejectStale(q, u) ==
    [q EXCEPT !.units[u].status = "done", !.units[u].result = "abort"]

\* func settled: the finally block of the task, then the result reaches the caller
SettleTask(q, u, res) ==
    [q EXCEPT !.units[u].status = "done",
              !.units[u].result = res,
              !.currentAbort = 0]

MicrotaskPendingQ(q) ==
    \E u \in DOMAIN q.units : Runnable(q, u) \/ q.units[u].status = "aborting"

\* units whose task reaction job is queued run in the order they were enqueued
FirstRunnable(q, u) ==
    /\ Runnable(q, u)
    /\ \A v \in UnitIds(q) : Runnable(q, v) => u <= v

\* the outcomes func can settle with.  A "timed" unit is one of
\* enqueueWithTimeout: withTimeout rejects with the abort reason once the
\* signal fired; every other unit ignores the signal it is handed.
Outcomes(unit) ==
    IF unit.kind = "timed"
    THEN IF unit.signalled THEN {"abort"} ELSE {"ok", "error", "timeout"}
    ELSE {"ok", "error"}

\* ------------------------------------------------------------------------
\* Initial state: the client as constructed (ossmBle.ts:535-554)
\* ------------------------------------------------------------------------
NoLoop == [pc |-> "idle", lastPollCaptured |-> 0, unit |-> 0]

\* What the properties need to remember of the run:
\*  lostLink        the link of a Ready client was lost with auto-reconnect
\*                  enabled, and the client has neither been Ready nor
\*                  ended since
\*  safetyStopOwed  the client returned to Ready after an unsolicited
\*                  disconnect with lastPoll older than the threshold and no
\*                  stop write has been started since
\*  reconnectDue    an unsolicited disconnect happened with auto-reconnect
\*                  enabled, auto-reconnect has stayed enabled and the client
\*                  has not been Ready since
\*  beginFailed     a connection attempt started by begin() failed and the
\*                  client has not been Ready (nor ended) since
\*  endSettled      end() was called, begin() was not called since, and the
\*                  link has been down with the client not Ready since then
\*  endCall ...     the last call of end(): the isReady it saw, whether it
\*                  enqueued a stop unit, whether a stop write was started
\*                  before doDisconnect ran, whether a stop unit of end()
\*                  settled, whether doDisconnect ran and gatt.connected
\*                  right after it
\*  lastEvent       the last of the events Connected and Disconnected that
\*                  was dispatched to the listeners
\*  connectedAgain  the last event dispatched was Connected, and so was the
\*                  one before it
\*  waitForReady    a call of waitForReady(): none, polling (it awaits its
\*                  100 ms delay), resolved (by the last step)
NoObs ==
    [lostLink |-> FALSE, safetyStopOwed |-> FALSE, reconnectDue |-> FALSE,
     beginFailed |-> FALSE, endSettled |-> FALSE,
     endCall |-> "none", endStopQueued |-> FALSE, endStopWritten |-> FALSE,
     endStopSettled |-> FALSE, endDisc |-> FALSE, endLinkAfter |-> FALSE,
     lastEvent |-> "none", connectedAgain |-> FALSE, waitForReady |-> "none"]

\* A call of the public API of the session (see "the calls" below)
NewCall(op, args, phases) ==
    [op |-> op, args |-> args, status |-> "running", phases |-> phases,
     entered |-> FALSE, pc |-> "none", todo |-> <<>>, writes |-> <<>>,
     list |-> <<>>, enqueued |-> 0, registered |-> FALSE, capturedState |-> <<>>,
     answer |-> <<>>, skipped |-> <<>>, stoppedAt |-> <<>>]

NoCall == [NewCall("none", <<>>, <<>>) EXCEPT !.status = "free"]

\* the navigation graph of the firmware's pages (part_005:105-110)
OSSM_PAGE_NAVIGATION_GRAPH ==
    [menu |-> <<"simplePenetration", "strokeEngine">>,
     simplePenetration |-> <<"menu">>,
     strokeEngine |-> <<"menu">>]

\* the client as constructed
Constructed ==
    /\ bleTaskQueue = EmptyQueue
    /\ autoReconnect = TRUE
    /\ isReady = FALSE
    /\ ossmServices = "null"
    /\ connected = FALSE
    /\ lastPoll = 0
    /\ now = TickMs    \* Date.now() is far beyond the threshold; lastPoll starts at 0
    /\ loops = [l \in 1..MaxLoops |-> NoLoop]
    /\ direct = {}
    /\ obs = NoObs
    /\ cachedState = <<>>
    /\ pendingStateTarget = <<>>
    /\ cachedPatternList = <<>>
    /\ lastFixedPosition = <<>>
    /\ calls = [c \in 1..MaxCalls |-> NoCall]
    /\ stateChanged = <<>>
    /\ pushes = <<>>
    /\ patternHelper = <<>>

Init ==
    /\ Constructed
    /\ graph = OSSM_PAGE_NAVIGATION_GRAPH

\* ------------------------------------------------------------------------
\* The queue on its own: any caller, any unit of work
\* ------------------------------------------------------------------------
ApplyQ(q) ==
    /\ Cardinality(Unsettled(q)) <= MaxUnits
    /\ q.generation <= MaxGen
    /\ bleTaskQueue' = Collect(q, Settled(bleTaskQueue))
    /\ UNCHANGED clientVars
    /\ UNCHANGED sessionVars
    /\ UNCHANGED patternHelper

\* enqueue(func) and enqueueWithTimeout(func, ms) (helpers.ts:99-124)
QEnqueue ==
    /\ Cardinality(Unsettled(bleTaskQueue)) < MaxUnits
    /\ \E kind \in {"generic", "timed"} :
          ApplyQ(Enqueue(bleTaskQueue, kind, "app"))

QClearQueue ==
    /\ Unsettled(bleTaskQueue) # {}
    /\ ApplyQ(ClearQueue(bleTaskQueue))

QAbortCurrent ==
    /\ bleTaskQueue.currentAbort # 0
    /\ ~bleTaskQueue.units[bleTaskQueue.currentAbort].signalled
    /\ ApplyQ(AbortCurrent(bleTaskQueue))

QTaskRun ==
    \E u \in UnitIds(bleTaskQueue) :
       /\ FirstRunnable(bleTaskQueue, u)
       /\ ApplyQ(StartTask(bleTaskQueue, u))

QRejectStale ==
    \E u \in UnitIds(bleTaskQueue) :
       /\ bleTaskQueue.units[u].status = "aborting"
       /\ \A v \in UnitIds(bleTaskQueue) : ~Runnable(bleTaskQueue, v)
       /\ ApplyQ(RejectStale(bleTaskQueue, u))

QSettle ==
    \E u \in Running(bleTaskQueue) :
       /\ \/ ~MicrotaskPendingQ(bleTaskQueue)
          \/ bleTaskQueue.units[u].kind = "timed" /\ bleTaskQueue.units[u].signalled
       /\ \E res \in Outcomes(bleTaskQueue.units[u]) :
             ApplyQ(SettleTask(bleTaskQueue, u, res))

NextQ ==
    \/ QEnqueue
    \/ QClearQueue
    \/ QAbortCurrent
    \/ QTaskRun
    \/ QRejectStale
    \/ QSettle

SpecQ == Init /\ [][NextQ]_vars

\* ------------------------------------------------------------------------
\* Properties of the queue
\* ------------------------------------------------------------------------

\* C2: units of work execute strictly one at a time: the function of a unit is
\* never started while the function of a previously started unit has not
\* settled, under any interleaving of enqueue, clearQueue and abortCurrent.
C2_OneAtATime ==
    Cardinality(Running(bleTaskQueue)) <= 1

\* C3: a unit that was enqueued before a clearQueue() and had not started by
\* then is never executed (its function is never invoked) and, once its
\* promise settles, it is rejected with the abort error.
C3_ClearedNeverRuns ==
    \A u \in UnitIds(bleTaskQueue) :
        bleTaskQueue.units[u].clearedIn = "queued" =>
            /\ bleTaskQueue.units[u].status # "running"
            /\ bleTaskQueue.units[u].status = "done" =>
                   bleTaskQueue.units[u].result = "abort"

\* after two successive clears, a unit that was queued when the queue was
\* cleared has been rejected while another cleared unit is still waiting
C3_Witness ==
    /\ bleTaskQueue.generation >= 2
    /\ \E u, v \in UnitIds(bleTaskQueue) :
          /\ u # v
          /\ bleTaskQueue.units[u].clearedIn = "queued"
          /\ bleTaskQueue.units[v].clearedIn = "queued"
          /\ bleTaskQueue.units[u].status = "done"
          /\ bleTaskQueue.units[u].result = "abort"

\* ------------------------------------------------------------------------
\* The client (ossmBle.ts:507-1453).  The methods are written as functions of
\* the whole client state S, so that a method can call another one.
\* ------------------------------------------------------------------------
EndOwned(q) == {u \in Unsettled(q) : q.units[u].owner = "end"}

\* an end() that has run to its end needs no more watching, nor does a
\* waitForReady() that has resolved
Forget(o, q) ==
    LET p == IF o.waitForReady = "resolved" THEN [o EXCEPT !.waitForReady = "none"] ELSE o
    IN  IF p.endDisc /\ EndOwned(q) = {}
        THEN [p EXCEPT !.endCall = "none", !.endStopQueued = FALSE,
                       !.endStopWritten = FALSE, !.endStopSettled = FALSE,
                       !.endDisc = FALSE, !.endLinkAfter = FALSE]
        ELSE p

Cur ==
    [q |-> bleTaskQueue, autoReconnect |-> autoReconnect, isReady |-> isReady,
     ossmServices |-> ossmServices, connected |-> connected, lastPoll |-> lastPoll, now |-> now,
     loops |-> loops, direct |-> direct, obs |-> Forget(obs, bleTaskQueue),
     fits |-> TRUE]

Observe(S) ==
    [S.obs EXCEPT !.endSettled =
        ~S.autoReconnect /\ (@ \/ (~S.connected /\ ~S.isReady))]

Apply(S) ==
    /\ S.fits
    /\ Cardinality(Unsettled(S.q)) <= MaxUnits
    /\ S.q.generation <= MaxGen
    /\ bleTaskQueue' = Collect(S.q, Settled(bleTaskQueue))
    /\ autoReconnect' = S.autoReconnect
    /\ isReady' = S.isReady
    /\ ossmServices' = S.ossmServices
    /\ connected' = S.connected
    /\ lastPoll' = S.lastPoll
    /\ now' = S.now
    /\ loops' = [l \in DOMAIN S.loops |->
                    [S.loops[l] EXCEPT !.unit = Rank(Settled(bleTaskQueue), @)]]
    /\ direct' = S.direct
    /\ obs' = Observe(S)
    /\ UNCHANGED sessionVars
    /\ UNCHANGED patternHelper

MicrotaskPending(S) ==
    \/ MicrotaskPendingQ(S.q)
    \/ \E l \in DOMAIN S.loops : S.loops[l].pc = "check"

\* the unit enqueued last
LastUnit(S) == Len(S.q.units)

clearQueue(S) == [S EXCEPT !.q = ClearQueue(@)]

enqueue(S, kind, owner) == [S EXCEPT !.q = Enqueue(@, kind, owner)]

\* the reconnect loop l is handed the unit it awaits
LoopAwaits(S, l, pc, u) ==
    IF l = 0 THEN S
    ELSE IF pc = "idle" THEN [S EXCEPT !.loops[l] = NoLoop]
    ELSE [S EXCEPT !.loops[l].pc = pc, !.loops[l].unit = u]

dispatchEvent_Dropped(S, event) == S

\* dispatchEvent(data) (ossmBle.ts:562-567): the callbacks registered for the
\* event are called one after the other, none is awaited
dispatchEvent(S, event) ==
    [S EXCEPT !.obs.lastEvent = event,
              !.obs.connectedAgain = (event = "Connected" /\ S.obs.lastEvent = "Connected")]

\* waitForReady() up to its await, and each time its delay has elapsed
\* (ossmBle.ts:1104-1111, without timeout)
waitForReady(S) ==
    [S EXCEPT !.obs.waitForReady = IF S.isReady THEN "resolved" ELSE "polling"]

\* connect() up to its await (ossmBle.ts:569-574), called by begin() (l = 0)
\* or by the reconnect loop l
connect(S, owner, l) ==
    IF S.connected
    THEN LoopAwaits(S, l, "check", 0)
    ELSE LET S1 == enqueue(clearQueue(S), "connect", owner)
         IN  LoopAwaits(S1, l, "connecting", LastUnit(S1))

\* stop() up to its await (ossmBle.ts:1081-1086)
stop(S, owner, l) ==
    IF ~S.isReady
    THEN LoopAwaits(S, l, "idle", 0)
    ELSE LET S1 == enqueue(clearQueue(S), "stop", owner)
             IN  LoopAwaits(S1, l, "stopping", LastUnit(S1))

FreeLoop(S) ==
    IF \E l \in DOMAIN S.loops : S.loops[l].pc = "idle"
    THEN CHOOSE l \in DOMAIN S.loops :
            /\ S.loops[l].pc = "idle"
            /\ \A k \in DOMAIN S.loops : S.loops[k].pc = "idle" => l <= k
    ELSE 0

\* one pass of `while (this.autoReconnect)` up to the await of connect()
\* (ossmBle.ts:620-625)
loopIterate(S, l) ==
    IF ~S.autoReconnect
    THEN LoopAwaits(S, l, "idle", 0)
    ELSE connect([S EXCEPT !.loops[l].lastPollCaptured = S.lastPoll], "loop", l)

\* onDisconnected() up to its first await (ossmBle.ts:612-625); the handler
\* runs on every gattserverdisconnected event, each run is a loop of its own
onDisconnected(S, unsolicited) ==
    LET S1 == dispatchEvent(
                  [S EXCEPT !.isReady = FALSE,
                            !.obs.safetyStopOwed = FALSE,
                            !.obs.lostLink = @ \/ (unsolicited /\ S.isReady /\ S.autoReconnect),
                            !.obs.reconnectDue = @ \/ (unsolicited /\ S.autoReconnect)],
                  "Disconnected")
    IN  IF ~S1.autoReconnect THEN S1
        ELSE IF FreeLoop(S1) = 0 THEN [S1 EXCEPT !.fits = FALSE]
        ELSE loopIterate(S1, FreeLoop(S1))

\* the link goes down: gatt.connected turns false, and the transport calls
\* pending on the lost link (discovery, writes, reads) can only reject; a
\* unit that awaits delay(100) has no transport call pending
linkDown(S) ==
    [S EXCEPT !.connected = FALSE,
              !.q.units = [u \in DOMAIN @ |->
                  IF @[u].status = "running"
                     /\ @[u].stage \notin {"gattConnect", "delay", "delayEarlier"}
                  THEN [@[u] EXCEPT !.linkLost = TRUE]
                  ELSE @[u]]]

\* doDisconnect of end() (ossmBle.ts:763-766); gatt.disconnect() fires
\* gattserverdisconnected
doDisconnect(S) ==
    LET S1 == IF S.connected
              THEN onDisconnected(linkDown(S), FALSE)
              ELSE S
    IN  [S1 EXCEPT !.obs.endDisc = TRUE, !.obs.endLinkAfter = S1.connected]

EndIssuesStop_Never(ready) == FALSE

EndIssuesStop(ready) == ready

\* end() (ossmBle.ts:760-771)
end(S) ==
    LET S1 == clearQueue([S EXCEPT !.autoReconnect = FALSE,
                  !.obs.lostLink = FALSE,
                  !.obs.safetyStopOwed = FALSE,
                  !.obs.reconnectDue = FALSE,
                  !.obs.beginFailed = FALSE,
                  !.obs.endCall = IF S.isReady THEN "ready" ELSE "notReady",
                  !.obs.endStopQueued = FALSE,
                  !.obs.endStopWritten = FALSE,
                  !.obs.endStopSettled = FALSE,
                  !.obs.endDisc = FALSE,
                  !.obs.endLinkAfter = FALSE])
    IN  IF EndIssuesStop(S1.isReady)
        THEN LET S2 == stop(S1, "end", 0)
             IN  [S2 EXCEPT !.obs.endStopQueued = S1.isReady]
        ELSE doDisconnect(S1)

\* begin() (ossmBle.ts:751-755)
begin(S) ==
    connect([S EXCEPT !.autoReconnect = TRUE], "begin", 0)

\* sendCommand(value) without speedup up to its await (ossmBle.ts:778-790)
sendCommand(S) ==
    enqueue(S, "cmd", "app")

\* the loop that awaits unit u
LoopOf(S, u) ==
    IF \E l \in DOMAIN S.loops : S.loops[l].unit = u
    THEN CHOOSE l \in DOMAIN S.loops : S.loops[l].unit = u
    ELSE 0

SafetyStopDue(captured, t) == captured + DISCONNECT_TIMEOUT_MS < t

\* the code after `await this.bleTaskQueue.enqueue(...)` in connect()
\* (ossmBle.ts:601-604) and, when the promise rejected, the catch of the
\* caller (ossmBle.ts:635-637; begin() has none)
connectSettled(S, u, ok) ==
    LET l == LoopOf(S, u)
    IN  IF ok
        THEN LET S1 == dispatchEvent(
                           [S EXCEPT !.isReady = TRUE,
                                     !.obs.safetyStopOwed =
                                         IF S.isReady THEN @
                                         ELSE S.obs.lostLink /\ SafetyStopDue(S.lastPoll, S.now),
                                     !.obs.lostLink = FALSE,
                                     !.obs.reconnectDue = FALSE,
                                     !.obs.beginFailed = FALSE],
                           "Connected")
             IN  LoopAwaits(S1, l, "check", 0)
        ELSE IF l # 0 THEN LoopAwaits(S, l, "backoff", 0)
        ELSE [S EXCEPT !.obs.beginFailed = TRUE]

\* the code after `await this.bleTaskQueue.enqueue(...)` in stop(): the
\* reconnect loop swallows the error and breaks (ossmBle.ts:630-634), end()
\* runs doDisconnect in finally (ossmBle.ts:768)
stopSettled(S, u) ==
    IF S.q.units[u].owner = "loop" THEN LoopAwaits(S, LoopOf(S, u), "idle", 0)
    ELSE IF S.q.units[u].owner = "end"
    THEN doDisconnect([S EXCEPT !.obs.endStopSettled = TRUE])
    ELSE S

\* the caller of enqueue() resumes with the result of unit u
settled(S, u, ok) ==
    IF S.q.units[u].kind = "connect" THEN connectSettled(S, u, ok)
    ELSE IF S.q.units[u].kind = "stop" THEN stopSettled(S, u)
    ELSE S

\* the first transport call of the function of a unit
FirstStage(kind) ==
    IF kind = "connect" THEN "gattConnect"
    ELSE IF kind = "stop" THEN "write"
    ELSE "exchange"

\* the queue worker runs the task of unit u (helpers.ts:102-109)
taskRun(S, u) ==
    LET S1 == [S EXCEPT !.q = StartTask(@, u)]
    IN  IF S1.q.units[u].status # "running" THEN S1
        ELSE LET S2 == [S1 EXCEPT !.q.units[u].stage = FirstStage(S.q.units[u].kind)]
             IN  IF S.q.units[u].kind # "stop" THEN S2
                 ELSE [S2 EXCEPT !.obs.safetyStopOwed = FALSE,
                                 !.obs.endStopWritten =
                                     @ \/ (S.obs.endCall = "ready" /\ ~S.obs.endDisc)]

\* ------------------------------------------------------------------------
\* Actions of the client: calls of the application
\* ------------------------------------------------------------------------
Begin ==
    /\ Apply(begin(Cur))
    /\ autoReconnect'

End ==
    /\ Apply(end(Cur))
    /\ ~autoReconnect'

Stop ==
    /\ isReady
    /\ Apply(stop(Cur, "app", 0))

SendCommand ==
    /\ isReady
    /\ Apply(sendCommand(Cur))

\* sendCommand(value, true), setSpeedKnobConfig and getSpeedKnobConfig call the
\* transport themselves (ossmBle.ts:781-784, 1018-1034)
DirectKinds == {"speedup", "speedKnobConfig"}

DirectExchange ==
    /\ isReady
    /\ Cardinality(direct) < MaxDirect
    /\ \E k \in DirectKinds \ direct :
          Apply([Cur EXCEPT !.direct = @ \cup {k}])

\* ------------------------------------------------------------------------
\* Actions of the client: the queue worker and promise reactions
\* ------------------------------------------------------------------------
TaskRun ==
    \E u \in UnitIds(bleTaskQueue) :
       /\ FirstRunnable(bleTaskQueue, u)
       /\ Apply(taskRun(Cur, u))

AbortSettle ==
    \E u \in UnitIds(bleTaskQueue) :
       /\ bleTaskQueue.units[u].status = "aborting"
       /\ \A v \in UnitIds(bleTaskQueue) : ~Runnable(bleTaskQueue, v)
       /\ Apply(settled([Cur EXCEPT !.q = RejectStale(@, u)], u, FALSE))

\* the code of onDisconnected after `await this.connect()` (ossmBle.ts:627-634)
LoopCheck ==
    \E l \in DOMAIN loops :
       /\ loops[l].pc = "check"
       /\ IF SafetyStopDue(loops[l].lastPollCaptured, now)
          THEN Apply(stop(Cur, "loop", l))
          ELSE Apply(LoopAwaits(Cur, l, "idle", 0))

\* ------------------------------------------------------------------------
\* Actions of the environment: transport, timers, clock
\* ------------------------------------------------------------------------
UnitsAt(stage) ==
    {u \in Running(bleTaskQueue) : bleTaskQueue.units[u].stage = stage}

\* the link comes up: gatt.connected turns true and every pending
\* device.gatt.connect() resolves (ossmBle.ts:575); each of these units sets
\* the timer of its delay(100) (577), which is due after the timers that
\* were set when the link came up before
linkUp(S) ==
    [S EXCEPT !.connected = TRUE,
              !.q.units = [u \in DOMAIN @ |->
                  IF @[u].status = "running" /\ @[u].stage = "gattConnect"
                  THEN [@[u] EXCEPT !.stage = "delay"]
                  ELSE IF @[u].status = "running" /\ @[u].stage = "delay"
                  THEN [@[u] EXCEPT !.stage = "delayEarlier"]
                  ELSE @[u]]]

\* device.gatt.connect() settles (ossmBle.ts:575)
GattConnectDone ==
    /\ ~MicrotaskPending(Cur)
    /\ UnitsAt("gattConnect") # {}
    /\ \/ Apply(linkUp(Cur))
       \/ \E u \in UnitsAt("gattConnect") :
             Apply(settled([Cur EXCEPT !.q = SettleTask(@, u, "error")], u, FALSE))

\* the units whose delay(100) ends next: timers of the same duration fire in
\* the order they were set, and the timers set by one resolution of the link
\* are due together
DelayElapsing ==
    IF UnitsAt("delayEarlier") # {} THEN UnitsAt("delayEarlier") ELSE UnitsAt("delay")

\* delay(100) of connect units ends: each unit replaces the table of
\* services by an empty one and calls getPrimaryService, which rejects when
\* the link is down (ossmBle.ts:577-587)
DelayDone ==
    /\ ~MicrotaskPending(Cur)
    /\ DelayElapsing # {}
    /\ Apply([Cur EXCEPT !.ossmServices = "empty",
                         !.q.units = [u \in DOMAIN @ |->
                             IF u \in DelayElapsing
                             THEN [@[u] EXCEPT !.stage = "discover",
                                               !.linkLost = ~connected]
                             ELSE @[u]]])

\* getPrimaryService and the getCharacteristic calls settle: the unit puts the
\* service with its characteristics into the table that this.ossmServices
\* holds by now, adds the listener and calls startNotifications
\* (ossmBle.ts:587-598)
DiscoverDone ==
    /\ ~MicrotaskPending(Cur)
    /\ \E u \in UnitsAt("discover") :
          \/ /\ connected
             /\ ~bleTaskQueue.units[u].linkLost
             /\ Apply([Cur EXCEPT !.ossmServices = "populated",
                                  !.q.units[u].stage = "subscribe"])
          \/ Apply(settled([Cur EXCEPT !.q = SettleTask(@, u, "error")], u, FALSE))

\* startNotifications settles (ossmBle.ts:598)
SubscribeDone ==
    /\ ~MicrotaskPending(Cur)
    /\ \E u \in UnitsAt("subscribe") :
          \/ /\ connected
             /\ ~bleTaskQueue.units[u].linkLost
             /\ Apply(settled([Cur EXCEPT !.q = SettleTask(@, u, "ok")], u, TRUE))
          \/ Apply(settled([Cur EXCEPT !.q = SettleTask(@, u, "error")], u, FALSE))

\* the write of "set:speed:0" settles (ossmBle.ts:1087)
StopWriteDone ==
    /\ ~MicrotaskPending(Cur)
    /\ \E u \in UnitsAt("write") :
          \/ /\ connected
             /\ ~bleTaskQueue.units[u].linkLost
             /\ Apply(settled([Cur EXCEPT !.q = SettleTask(@, u, "ok")], u, TRUE))
          \/ Apply(settled([Cur EXCEPT !.q = SettleTask(@, u, "error")], u, FALSE))

\* write, delay and read-back of a command settle (ossmBle.ts:787-789)
CommandDone ==
    /\ ~MicrotaskPending(Cur)
    /\ \E u \in UnitsAt("exchange") :
          \/ /\ connected
             /\ ~bleTaskQueue.units[u].linkLost
             /\ Apply(settled([Cur EXCEPT !.q = SettleTask(@, u, "ok")], u, TRUE))
          \/ Apply(settled([Cur EXCEPT !.q = SettleTask(@, u, "error")], u, FALSE))

DirectDone ==
    /\ ~MicrotaskPending(Cur)
    /\ \E k \in direct : Apply([Cur EXCEPT !.direct = @ \ {k}])

\* the link is lost: gatt.connected turns false and gattserverdisconnected fires
LinkDrop ==
    /\ ~MicrotaskPending(Cur)
    /\ connected
    /\ Apply(onDisconnected(linkDown(Cur), TRUE))

\* the 250 ms backoff timer fires (ossmBle.ts:637-638, 620)
LoopRetry ==
    /\ ~MicrotaskPending(Cur)
    /\ \E l \in DOMAIN loops :
          /\ loops[l].pc = "backoff"
          /\ Apply(loopIterate(Cur, l))

\* Date.now() moves on.  The program only compares it with lastPoll and with
\* captures of lastPoll (ossmBle.ts:628): once the last push is older than the
\* threshold a later reading compares the same, so the clock is advanced only
\* while the last push is recent.
Tick ==
    /\ ~MicrotaskPending(Cur)
    /\ now < (MaxTicks + 1) * TickMs
    /\ ~SafetyStopDue(lastPoll, now)
    /\ Apply([Cur EXCEPT !.now = @ + TickMs])

\* a status notification arrives (ossmBle.ts:666-667)
StatusPush ==
    /\ ~MicrotaskPending(Cur)
    /\ isReady
    /\ lastPoll # now
    /\ Apply([Cur EXCEPT !.lastPoll = now])

Next ==
    \/ Begin
    \/ End
    \/ Stop
    \/ SendCommand
    \/ TaskRun
    \/ AbortSettle
    \/ LoopCheck
    \/ GattConnectDone
    \/ DelayDone
    \/ DiscoverDone
    \/ SubscribeDone
    \/ StopWriteDone
    \/ CommandDone
    \/ LinkDrop
    \/ LoopRetry
    \/ Tick
    \/ StatusPush

Spec == Init /\ [][Next]_vars

\* the client with the calls that go to the transport without the queue
NextD ==
    \/ Next
    \/ DirectExchange
    \/ DirectDone

SpecD == Init /\ [][NextD]_vars

\* --------------------------------------------- the client between two pushes
\* the client while no status notification arrives and the clock reading
\* compares the same with lastPoll throughout (the last push stays older
\* than the threshold)
NextK ==
    \/ Begin
    \/ End
    \/ Stop
    \/ SendCommand
    \/ TaskRun
    \/ AbortSettle
    \/ LoopCheck
    \/ GattConnectDone
    \/ DelayDone
    \/ DiscoverDone
    \/ SubscribeDone
    \/ StopWriteDone
    \/ CommandDone
    \/ LinkDrop
    \/ LoopRetry

SpecK == Init /\ [][NextK]_vars

\* ------------------------------------------------------------------------
\* Properties of the client
\* ------------------------------------------------------------------------

\* the client is Ready only while the link is up
ReadyImpliesConnected == isReady => connected

\* protocol exchanges in flight on the transport: the write of a stop unit, the
\* write / read-back of a command unit, and the exchanges started outside the
\* queue
InFlight ==
    Cardinality(UnitsAt("write") \cup UnitsAt("exchange")) + Cardinality(direct)

\* C1: in every reachable state at most one protocol exchange (a
\* characteristic write, or a write followed by its read-back) is in flight on
\* the transport, whatever the interleaving of sendCommand (with and without
\* speedup), stop(), the speed knob configuration calls and connect().
C1_SingleExchange ==
    InFlight <= 1

\* a stop unit that has not started and that no clearQueue() has invalidated
FreshStop(q) ==
    {u \in UnitIds(q) : /\ q.units[u].kind = "stop"
                        /\ q.units[u].status = "queued"
                        /\ q.units[u].capturedGeneration = q.generation}

\* running units other than stop writes
RunningOther(q) ==
    {u \in Running(q) : q.units[u].kind # "stop"}

\* C4 (no waiting): the stop unit enqueued by stop() is at the head of the
\* chain, it waits for no unit enqueued before it.
C4_StopHeadOfChain ==
    \A u \in FreshStop(bleTaskQueue) : Runnable(bleTaskQueue, u)

\* C4 (no backlog): a unit that was queued when the queue was cleared is
\* never started.
C4_BacklogNeverStarts ==
    \A u \in UnitIds(bleTaskQueue) :
        bleTaskQueue.units[u].clearedIn = "queued" =>
            bleTaskQueue.units[u].status \in {"queued", "aborting", "done"}

\* C4 (next to start): while the stop unit waits to be started, no step
\* starts a unit other than a stop write.
C4_StopStartsNext ==
    FreshStop(bleTaskQueue) # {} =>
        Cardinality(RunningOther(bleTaskQueue')) <= Cardinality(RunningOther(bleTaskQueue))

\* C4: when stop() is called while the client is Ready, with any number of
\* units queued and possibly one executing, the emergency-stop write is the
\* next unit the queue starts: it does not wait for a previously queued unit
\* and none of the previously queued units is started.
C4_StopPreempts ==
    /\ []C4_StopHeadOfChain
    /\ []C4_BacklogNeverStarts
    /\ [][C4_StopStartsNext]_vars

\* the stop write of stop() is on the transport while the unit that was
\* executing is still executing and a unit of the backlog has been cleared
C4_Witness ==
    \E s, r, b \in UnitIds(bleTaskQueue) :
        /\ bleTaskQueue.units[s].kind = "stop"
        /\ bleTaskQueue.units[s].owner = "app"
        /\ bleTaskQueue.units[s].status = "running"
        /\ bleTaskQueue.units[s].clearedIn = "none"
        /\ bleTaskQueue.units[r].kind = "cmd"
        /\ bleTaskQueue.units[r].clearedIn = "running"
        /\ bleTaskQueue.units[r].status = "running"
        /\ bleTaskQueue.units[b].kind = "cmd"
        /\ bleTaskQueue.units[b].clearedIn = "queued"

\* a connection attempt is under way or scheduled: a reconnect loop is between
\* its start and its break, or a connect unit has not settled
AttemptPending ==
    \/ \E l \in DOMAIN loops : loops[l].pc # "idle"
    \/ \E u \in Unsettled(bleTaskQueue) : bleTaskQueue.units[u].kind = "connect"

\* a stop write is about to be issued: a reconnect loop has yet to reach or
\* leave its safety check, or a stop unit waits to be started
StopPending ==
    \/ \E l \in DOMAIN loops : loops[l].pc # "idle"
    \/ FreshStop(bleTaskQueue) # {}

\* C5: whenever the client returns to Ready after an unsolicited disconnect
\* with the last status push more than DISCONNECT_TIMEOUT_MS old, an
\* emergency-stop write is issued as part of that reconnect: the client is
\* never Ready with that stop neither written nor about to be written.
C5_SafetyStopIssued ==
    (isReady /\ obs.safetyStopOwed) => StopPending

\* C6: after an unsolicited disconnect with auto-reconnect enabled the client
\* never ends up not Ready with no further connection attempt scheduled.
C6_RetryScheduled ==
    (obs.reconnectDue /\ autoReconnect /\ ~isReady) => AttemptPending

\* C7: after a failure of the connection attempt started by begin(), further
\* connection attempts are made while auto-reconnect is enabled.
C7_BeginFailureRetried ==
    (obs.beginFailed /\ autoReconnect /\ ~isReady) => AttemptPending

C9_EndedStaysDown ==
    obs.endSettled => ~isReady

\* C10: a command of sendCommand that was executing when the queue was
\* cleared fails: its promise rejects with the abort error.
C10_ClearedCommandAborts ==
    \A u \in Settled(bleTaskQueue) :
        (bleTaskQueue.units[u].kind = "cmd" /\ bleTaskQueue.units[u].clearedIn = "running")
            => bleTaskQueue.units[u].result = "abort"

\* ========================================================================
\* The session: the cached snapshot, the pending targets, the status
\* reconciler, the setters and the operations composed of them.  The link
\* is seen through isReady only; a unit of bleTaskQueue is one exchange
\* (write, settle delay, read back) of the call that enqueued it.
\* ========================================================================
Levels == {0, 1, 2}

\* The JSON object of a status notification: the device names the status "state".
PushedJson ==
    [state : {"menu", "simplePenetration.idle", "strokeEngine.idle"},
     speed : Levels \cup {100}, stroke : Levels \cup {100},
     sensation : Levels \cup {100}, depth : Levels \cup {100}, pattern : {0, 6}]

\* const { state, ...rest } = jsonStateObj; { status: state, ...rest }
Remap(json) ==
    [k \in (DOMAIN json \ {"state"}) \cup {"status"} |->
        IF k = "status" THEN json.state ELSE json[k]]

\* ------------------------------------------ pendingStateTarget, an object
\* A JavaScript object enumerates its string keys in insertion order: the
\* pending targets are a sequence of entries with distinct keys.

\* this.pendingStateTarget.k = v
PendingSet(pt, k, v) ==
    IF \E i \in DOMAIN pt : pt[i].key = k
    THEN [i \in DOMAIN pt |-> IF pt[i].key = k THEN [key |-> k, value |-> v] ELSE pt[i]]
    ELSE Append(pt, [key |-> k, value |-> v])

\* delete this.pendingStateTarget.k
RECURSIVE PendingDelete(_, _)
PendingDelete(pt, k) ==
    IF pt = <<>> THEN <<>>
    ELSE IF Head(pt).key = k THEN Tail(pt)
    ELSE <<Head(pt)>> \o PendingDelete(Tail(pt), k)

\* ------------------------------------------------------ status reconciler
WhatsChanged_Everything(oldState, remapped) == DOMAIN remapped

\* The fields of the notification that differ from the cached snapshot
\* (every field when nothing is cached: oldState?.[key] is undefined).
WhatsChanged(oldState, remapped) ==
    {k \in DOMAIN remapped : k \notin DOMAIN oldState \/ remapped[k] # oldState[k]}

isIntermediateValue_Never(incoming, expected) == FALSE

\* the artifact taken to be one above the target
isIntermediateValue_Above(incoming, expected) == incoming = expected + 1

\* every value below the target taken for the artifact
isIntermediateValue_Below(incoming, expected) == incoming < expected

\* Both values are numbers for every key the pending targets can hold.
isIntermediateValue(incoming, expected) == incoming = expected - 1

\* The loop over the pending targets: entries is what is left to visit,
\* pt the object as the deletions so far have left it.
RECURSIVE ReconcilePending(_, _, _, _)
ReconcilePending(entries, pt, changed, remapped) ==
    IF entries = <<>> THEN [pending |-> pt, returned |-> FALSE]
    ELSE LET key == Head(entries).key
             pendingTarget == Head(entries).value
         IN  IF key \notin changed
             THEN ReconcilePending(Tail(entries), pt, changed, remapped)
             ELSE IF remapped[key] = pendingTarget
             THEN ReconcilePending(Tail(entries), PendingDelete(pt, key), changed, remapped)
             ELSE IF isIntermediateValue(remapped[key], pendingTarget)
             THEN [pending |-> pt, returned |-> TRUE]
             ELSE ReconcilePending(Tail(entries), PendingDelete(pt, key), changed, remapped)

onCurrentStateChanged_Silent(S, json) ==
    [S EXCEPT !.lastPoll = S.now, !.cachedState = Remap(json)]

onCurrentStateChanged(S, json) ==
    LET remapped == Remap(json)
        T == [S EXCEPT !.lastPoll = S.now]
        changed == WhatsChanged(S.cachedState, remapped)
        pass == ReconcilePending(S.pendingStateTarget, S.pendingStateTarget, changed, remapped)
    IN  IF changed = {} THEN T
        ELSE IF pass.returned \/ pass.pending # <<>>
        THEN [T EXCEPT !.pendingStateTarget = pass.pending]
        ELSE [T EXCEPT !.pendingStateTarget = pass.pending,
                       !.cachedState = remapped,
                       !.stateChanged = Append(@, remapped)]

\* ------------------------------------------------------ the session state
\* A call that settled stays visible for one state, like the event and the
\* notification of the last step.
Ses ==
    [isReady |-> isReady, lastPoll |-> lastPoll, now |-> now,
     cachedState |-> cachedState, pendingStateTarget |-> pendingStateTarget,
     cachedPatternList |-> cachedPatternList, lastFixedPosition |-> lastFixedPosition,
     calls |-> [c \in DOMAIN calls |->
                   IF calls[c].status = "running" THEN calls[c] ELSE NoCall],
     stateChanged |-> <<>>, pushes |-> <<>>,
     q |-> bleTaskQueue]

ApplySes(S) ==
    /\ Cardinality(Unsettled(S.q)) <= MaxUnits
    /\ S.q.generation <= MaxGen
    /\ bleTaskQueue' = Collect(S.q, Settled(bleTaskQueue))
    /\ isReady' = S.isReady
    /\ lastPoll' = S.lastPoll
    /\ now' = S.now
    /\ cachedState' = S.cachedState
    /\ pendingStateTarget' = S.pendingStateTarget
    /\ cachedPatternList' = S.cachedPatternList
    /\ lastFixedPosition' = S.lastFixedPosition
    /\ calls' = S.calls
    /\ stateChanged' = S.stateChanged
    /\ pushes' = S.pushes
    /\ graph' = graph
    /\ UNCHANGED <<autoReconnect, ossmServices, connected, loops, direct, obs, patternHelper>>

\* characteristicvaluechanged on the state characteristic: the device sends
\* one of `jsons`
StatusNotification(jsons) ==
    \E json \in jsons :
       ApplySes(onCurrentStateChanged([Ses EXCEPT !.pushes = <<json>>], json))

\* ------------------------------------------------------------- arguments
\* A JavaScript number passed by the application: int + half / 2, so that a
\* non-integral argument can be passed.  Values held by the device, the
\* snapshot and the pending targets are integers.
Num(i, h) == [int |-> i, half |-> h]

OutOfRange_Never(n) == FALSE

\* speed < 0 || speed > 100 || !Number.isInteger(speed)
OutOfRange(n) ==
    \/ n.int < 0
    \/ n.int > 100 \/ (n.int = 100 /\ n.half > 0)
    \/ n.half # 0

ApiValue_Plain(key, v) == v

\* the number of the command text: stroke, depth and sensation strictly
\* between 0 and 100 are sent one lower, speed and pattern as they are
ApiValue(key, v) ==
    IF key = "speed" \/ key = "pattern" THEN v
    ELSE IF v > 0 /\ v < 100 THEN v - 1 ELSE v

\* A command text is the sequence of its parts: `set:speed:5` is
\* <<"set", "speed", 5>>, `go:menu` is <<"go", "menu">>, and `fail:` followed
\* by a text is <<"fail">> \o text.
SetText(key, v) == <<"set", key, ApiValue(key, v)>>

\* --------------------------------------------------------------- the calls
\* A call of the public API is a script: phases run one after the other, a
\* phase registers pending targets, runs its steps (each awaited before the
\* next) and releases pending targets in its finally block.  A step is a
\* setter call (kind "set") or a sendCommand call (kind "cmd", with its text).
\* pc is what the call awaits.
SetStep(key, n) == [kind |-> "set", key |-> key, arg |-> n]

Phase(register, steps, release) ==
    [register |-> register, steps |-> steps, release |-> release]

CurrentStep(call) == Head(Head(call.phases).steps)

StepText(step) ==
    IF step.kind = "cmd" THEN step.text ELSE SetText(step.key, step.arg.int)

RECURSIVE RegisterAll(_, _)
RegisterAll(pt, entries) ==
    IF entries = <<>> THEN pt
    ELSE RegisterAll(PendingSet(pt, Head(entries).key, Head(entries).value), Tail(entries))

RECURSIVE ReleaseAll(_, _)
ReleaseAll(pt, keys) ==
    IF keys = <<>> THEN pt
    ELSE ReleaseAll(PendingDelete(pt, Head(keys)), Tail(keys))

SetterFinally_Skip(pt, key) == pt

\* the finally block of a setter
SetterFinally(pt, key) == PendingDelete(pt, key)

\* the call settles: its promise resolves or rejects with `status`
Finish(S, c, status) ==
    LET T == [S EXCEPT !.calls[c].status = status,
                       !.calls[c].phases = <<>>,
                       !.calls[c].pc = "none"]
    IN  IF S.calls[c].op = "moveToPosition" /\ status = "ok"
        THEN [T EXCEPT !.lastFixedPosition = <<S.calls[c].args.position.int>>]
        ELSE T

\* the current step throws and no finally block runs
Fail_NoFinally(S, c, error) == Finish(S, c, error)

\* the current step throws: the finally block of the setter when it had
\* reached its try block, then the finally block of the phase
Fail(S, c, error) ==
    LET call == S.calls[c]
        step == CurrentStep(call)
        afterSetter ==
            IF call.pc = "cmd" /\ step.kind = "set"
            THEN SetterFinally(S.pendingStateTarget, step.key)
            ELSE S.pendingStateTarget
    IN  Finish([S EXCEPT !.pendingStateTarget =
                             ReleaseAll(afterSetter, Head(call.phases).release)],
               c, error)

\* this.bleTaskQueue.enqueue(...) on behalf of call c
SesEnqueue(S, c, kind) ==
    [S EXCEPT !.q = Enqueue(@, kind, c), !.calls[c].enqueued = @ + 1]

\* sendCommand(text) of the current step (ossmBle.ts:778-797), up to its await
SendText(S, c) ==
    IF ~S.isReady THEN Fail(S, c, "InvalidState")
    ELSE SesEnqueue(S, c, "cmd")

RECURSIVE Advance(_, _)

\* the current step returned
StepDone(S, c) ==
    Advance([S EXCEPT !.calls[c].phases[1].steps = Tail(@), !.calls[c].pc = "none"], c)

\* this.cachedState?.key === v
CachedEquals(S, key, v) ==
    /\ key \in DOMAIN S.cachedState
    /\ S.cachedState[key] = v

\* setSpeed, setStroke, setDepth, setSensation (ossmBle.ts:838-937) up to the await
rawSetter(S, c, step) ==
    IF OutOfRange(step.arg) THEN Fail(S, c, "RangeError")
    ELSE IF CachedEquals(S, step.key, step.arg.int)
    THEN StepDone([S EXCEPT !.calls[c].skipped = Append(@, step.key)], c)
    ELSE SendText([S EXCEPT !.pendingStateTarget = PendingSet(@, step.key, step.arg.int),
                            !.calls[c].registered = TRUE,
                            !.calls[c].pc = "cmd"], c)

\* the membership test left out
setPatternChecked_AnyId(S, c, step) ==
    IF CachedEquals(S, "pattern", step.arg.int)
    THEN StepDone([S EXCEPT !.calls[c].skipped = Append(@, "pattern")], c)
    ELSE SendText([S EXCEPT !.pendingStateTarget = PendingSet(@, "pattern", step.arg.int),
                            !.calls[c].registered = TRUE,
                            !.calls[c].pc = "cmd"], c)

\* setPattern from the membership test on (ossmBle.ts:950-964)
setPatternChecked(S, c, step) ==
    IF \A i \in DOMAIN S.cachedPatternList[1] : S.cachedPatternList[1][i] # step.arg.int
    THEN Fail(S, c, "RangeError")
    ELSE IF CachedEquals(S, "pattern", step.arg.int)
    THEN StepDone([S EXCEPT !.calls[c].skipped = Append(@, "pattern")], c)
    ELSE SendText([S EXCEPT !.pendingStateTarget = PendingSet(@, "pattern", step.arg.int),
                            !.calls[c].registered = TRUE,
                            !.calls[c].pc = "cmd"], c)

\* setPattern up to its first await (ossmBle.ts:944-949), getPatternList up
\* to its first await (ossmBle.ts:1040-1049)
setPattern(S, c, step) ==
    IF step.arg.int < 0 \/ step.arg.half # 0 THEN Fail(S, c, "RangeError")
    ELSE IF S.cachedPatternList # <<>> THEN setPatternChecked(S, c, step)
    ELSE IF ~S.isReady THEN Fail(S, c, "InvalidState")
    ELSE SesEnqueue([S EXCEPT !.calls[c].pc = "list"], c, "patternList")

\* the call runs until it awaits a unit of the queue or settles
Advance(S, c) ==
    LET call == S.calls[c]
    IN  IF call.phases = <<>> THEN Finish(S, c, "ok")
        ELSE LET ph == Head(call.phases)
             IN  IF ~call.entered
                 THEN Advance([S EXCEPT !.pendingStateTarget = RegisterAll(@, ph.register),
                                        !.calls[c].entered = TRUE], c)
                 ELSE IF ph.steps = <<>>
                 THEN Advance([S EXCEPT !.pendingStateTarget = ReleaseAll(@, ph.release),
                                        !.calls[c].phases = Tail(@),
                                        !.calls[c].entered = FALSE], c)
                 ELSE IF Head(ph.steps).kind = "cmd"
                 THEN SendText([S EXCEPT !.calls[c].pc = "cmd"], c)
                 ELSE IF Head(ph.steps).key = "pattern"
                 THEN setPattern(S, c, Head(ph.steps))
                 ELSE rawSetter(S, c, Head(ph.steps))

\* ------------------------------------------------- results of the units
\* What the unit of a call settles with: the text read back (kind "echo"),
\* a rejection of the transport (kind "error"), or the rejection of the
\* generation check (kind "abort").
Outcome(kind, text) == [kind |-> kind, text |-> text]

Classify_AcceptAll(text, outcome) == "ok"

\* sendCommand after its await (ossmBle.ts:792-796)
Classify(text, outcome) ==
    IF outcome.kind = "abort" THEN "AbortError"
    ELSE IF outcome.kind = "error" THEN "NetworkError"
    ELSE IF outcome.text = <<"fail">> \o text THEN "OperationError"
    ELSE IF outcome.text # text THEN "DataError"
    ELSE "ok"

\* the unit awaited by call c settled with `outcome`
OnSettled(S, c, outcome) ==
    LET call == S.calls[c]
        step == CurrentStep(call)
    IN  IF call.pc = "cmd"
        THEN LET T == IF step.kind = "set"
                      THEN [S EXCEPT !.pendingStateTarget = SetterFinally(@, step.key),
                                     !.calls[c].pc = "none"]
                      ELSE [S EXCEPT !.calls[c].pc = "none"]
                 result == Classify(StepText(step), outcome)
             IN  IF result = "ok" THEN StepDone(T, c) ELSE Fail(T, c, result)
        ELSE IF call.pc = "stop"
        THEN Finish(S, c, IF outcome.kind = "echo" THEN "ok" ELSE Classify(<<>>, outcome))
        ELSE IF outcome.kind # "echo" THEN Fail(S, c, Classify(<<>>, outcome))
        ELSE IF call.pc = "list"
        THEN \* the list was read: the description of each pattern is fetched in turn
             IF outcome.text = <<>>
             THEN setPatternChecked([S EXCEPT !.cachedPatternList = << <<>> >>,
                                              !.calls[c].pc = "none"], c, step)
             ELSE SesEnqueue([S EXCEPT !.calls[c].pc = "desc",
                                       !.calls[c].todo = outcome.text,
                                       !.calls[c].list = outcome.text],
                             c, "patternDescription")
        ELSE \* pc = "desc": a description was read
             IF outcome.text[1] = ""
             THEN Fail(S, c, "DataError")
             ELSE IF Len(call.todo) > 1
             THEN SesEnqueue([S EXCEPT !.calls[c].todo = Tail(@)], c, "patternDescription")
             ELSE setPatternChecked([S EXCEPT !.cachedPatternList = <<call.list>>,
                                              !.calls[c].todo = <<>>,
                                              !.calls[c].pc = "none"], c, step)

\* ------------------------------------------------------ composite calls
\* every status taken for one of the stroke engine page
getCurrentPage_StrokeEngine(state) == "strokeEngine"

\* getCurrentPage(state): the status up to its first '.', which must be a
\* value of OssmPage; the result is the page or the name of the error thrown
getCurrentPage(state) ==
    IF state = <<>> THEN "InvalidState"
    ELSE IF state.status \in {"menu", "menu.idle"} THEN "menu"
    ELSE IF state.status \in {"strokeEngine", "strokeEngine.idle", "strokeEngine.preflight",
                              "strokeEngine.pattern"}
    THEN "strokeEngine"
    ELSE IF state.status \in {"simplePenetration", "simplePenetration.idle",
                              "simplePenetration.preflight"}
    THEN "simplePenetration"
    ELSE "DataError"

\* the entries of `targets` whose value is not the captured one
RECURSIVE Differing(_, _)
Differing(captured, targets) ==
    IF targets = <<>> THEN <<>>
    ELSE (IF captured[Head(targets).key] # Head(targets).value THEN <<Head(targets)>> ELSE <<>>)
         \o Differing(captured, Tail(targets))

SettingsOrder_DepthFirst(data, captured) == <<"depth", "stroke", "speed", "sensation">>

\* the order of the safe branch for every input
SettingsOrder_SpeedFirst(data, captured) == <<"speed", "depth", "stroke", "sensation">>

\* the order in which runStrokeEnginePattern calls the setters of the four
\* levels (ossmBle.ts:1214-1237)
SettingsOrder(data, captured) ==
    LET min == data.depth - data.stroke
        oldMin == captured.depth - captured.stroke
    IN  IF data.speed < captured.speed
        THEN <<"speed", "depth", "stroke", "sensation">>
        ELSE IF data.speed > captured.speed /\ (min < oldMin \/ data.depth > captured.depth)
        THEN <<"depth", "stroke", "speed", "sensation">>
        ELSE <<"depth", "stroke", "speed", "sensation">>

\* runStrokeEnginePattern(data) from the capture of the state on
\* (ossmBle.ts:1197-1245)
runStrokeEnginePattern(data, captured) ==
    LET set(key) == SetStep(key, Num(data[key], 0))
        order == [i \in 1..4 |-> set(SettingsOrder(data, captured)[i])]
    IN  <<Phase(Differing(captured,
                          [i \in 1..5 |->
                              LET key == <<"pattern", "speed", "stroke", "depth", "sensation">>[i]
                              IN  [key |-> key, value |-> data[key]]]),
                (IF captured.pattern # data.pattern THEN <<set("pattern")>> ELSE <<>>) \o order,
                <<"pattern", "speed", "stroke", "depth", "sensation">>)>>

\* the direct order whatever the device reports
moveToPosition_Direct(position, speed, currentState, lastFixed) ==
    <<Phase(<<[key |-> "speed", value |-> speed.int], [key |-> "depth", value |-> position.int]>>,
            <<SetStep("speed", speed), SetStep("depth", position)>>,
            <<"speed", "depth">>)>>

\* moveToPosition(position, speed) from the page check on (ossmBle.ts:1262-1335)
moveToPosition(position, speed, currentState, lastFixed) ==
    LET target(key, v) == [key |-> key, value |-> v]
    IN  IF \/ currentState.pattern # 6
           \/ currentState.sensation # 100
           \/ currentState.stroke # 100
        THEN <<Phase(<<target("speed", 0), target("pattern", 6)>>,
                     <<SetStep("speed", Num(0, 0)), SetStep("pattern", Num(6, 0))>>,
                     <<"speed", "pattern">>),
               Phase(<<target("sensation", 100), target("stroke", 100),
                       target("depth", position.int), target("speed", speed.int)>>,
                     <<SetStep("sensation", Num(100, 0)), SetStep("stroke", Num(100, 0)),
                       SetStep("depth", position), SetStep("speed", speed)>>,
                     <<"sensation", "stroke", "depth", "speed">>)>>
        ELSE IF lastFixed = <<currentState.depth>>
        THEN <<Phase(<<target("speed", speed.int), target("depth", position.int)>>,
                     <<SetStep("speed", speed), SetStep("depth", position)>>,
                     <<"speed", "depth">>)>>
        ELSE <<Phase(<<target("speed", 0)>>, <<SetStep("speed", Num(0, 0))>>, <<"speed">>),
               Phase(<<target("depth", position.int), target("speed", speed.int)>>,
                     <<SetStep("depth", position), SetStep("speed", speed)>>,
                     <<"depth", "speed">>)>>

\* batchSet(data) from the capture of the state on (ossmBle.ts:1388-1426);
\* data is the array of [key, value] pairs
batchSet(data, captured) ==
    LET given(key) == \E i \in DOMAIN data : data[i][1] = key
        valueOf(key) == data[CHOOSE i \in DOMAIN data : data[i][1] = key][2]
        keys == <<"speed", "stroke", "sensation", "depth", "pattern">>
        RECURSIVE targets(_)
        targets(i) ==
            IF i > 5 THEN <<>>
            ELSE (IF given(keys[i]) THEN <<[key |-> keys[i], value |-> valueOf(keys[i])]>>
                  ELSE <<>>) \o targets(i + 1)
    IN  <<Phase(Differing(captured, targets(1)),
                [i \in DOMAIN data |-> SetStep(data[i][1], Num(data[i][2], 0))],
                keys)>>

\* getState() returned the snapshot: the page check and the plan of the call
StateObtained(S, c) ==
    LET call == S.calls[c]
        captured == S.cachedState
        page == getCurrentPage(captured)
        T == [S EXCEPT !.calls[c].pc = "none", !.calls[c].capturedState = <<captured>>]
    IN  IF call.op = "batchSet"
        THEN Advance([T EXCEPT !.calls[c].phases = batchSet(call.args.data, captured)], c)
        ELSE IF page = "DataError" THEN Finish(T, c, "DataError")
        ELSE IF page # "strokeEngine" THEN Finish(T, c, "InvalidState")
        ELSE IF call.op = "runStrokeEnginePattern"
        THEN Advance([T EXCEPT !.calls[c].phases =
                                   runStrokeEnginePattern(call.args.data, captured)], c)
        ELSE Advance([T EXCEPT !.calls[c].phases =
                                   moveToPosition(call.args.position, call.args.speed,
                                                  captured, S.lastFixedPosition)], c)

\* getState() (ossmBle.ts:1117-1125): returns the snapshot when the client is
\* ready and has one, polls every 100 ms otherwise
getState(S, c) ==
    IF S.isReady /\ S.cachedState # <<>> THEN StateObtained(S, c) ELSE S

\* ------------------------------------------------- actions of the session
\* the pattern list the device holds
DevicePatternList == <<0, 6>>

FreeCalls(S) == {c \in DOMAIN S.calls : S.calls[c].status = "free"}

\* the application calls op: the call takes the first free slot and runs up
\* to its first await
StartCall(S, op, args, phases) ==
    LET c == CHOOSE c \in FreeCalls(S) : \A d \in FreeCalls(S) : c <= d
    IN  Advance([S EXCEPT !.calls[c] = NewCall(op, args, phases)], c)

\* setSpeed(n), setStroke(n), setDepth(n), setSensation(n), setPattern(n);
\* args remembers what the call found: whether n was the cached value of
\* the field and whether the client was ready
CallSetter(keys, numbers) ==
    /\ FreeCalls(Ses) # {}
    /\ \E key \in keys, n \in numbers :
          ApplySes(StartCall(Ses, "set",
                             [key |-> key, value |-> n, ready |-> isReady,
                              same |-> n.half = 0 /\ CachedEquals(Ses, key, n.int)],
                             <<Phase(<<>>, <<SetStep(key, n)>>, <<>>)>>))

\* sendCommand(text), without speedup
CallSendCommand(texts) ==
    /\ FreeCalls(Ses) # {}
    /\ \E text \in texts :
          ApplySes(StartCall(Ses, "sendCommand", [text |-> text, ready |-> isReady],
                             <<Phase(<<>>, <<[kind |-> "cmd", text |-> text]>>, <<>>)>>))

\* runStrokeEnginePattern(data), moveToPosition(position, speed) or
\* batchSet(data): batchSet refuses a key given twice, then each awaits
\* getState()
CallComposite(op, arguments) ==
    /\ FreeCalls(Ses) # {}
    /\ \E args \in arguments :
          LET c == CHOOSE c \in FreeCalls(Ses) : \A d \in FreeCalls(Ses) : c <= d
              S == [Ses EXCEPT !.calls[c] = [NewCall(op, args, <<>>) EXCEPT !.pc = "state"]]
          IN  IF /\ op = "batchSet"
                 /\ \E i, j \in DOMAIN args.data : i # j /\ args.data[i][1] = args.data[j][1]
              THEN ApplySes(Finish(S, c, "Error"))
              ELSE ApplySes(getState(S, c))

\* the 100 ms timer of a polling getState() fires
StatePolled ==
    /\ ~MicrotaskPendingQ(bleTaskQueue)
    /\ \E c \in DOMAIN calls :
          /\ calls[c].pc = "state"
          /\ isReady /\ cachedState # <<>>
          /\ ApplySes(StateObtained(Ses, c))

navigateTo_Direct(g, currentPage, page) == [error |-> "none", go |-> <<page>>]

navigateTo_FirstEdge(g, currentPage, page) ==
    [error |-> "none",
     go |-> IF currentPage = page THEN <<>>
            ELSE IF \E i \in DOMAIN g[currentPage] : g[currentPage][i] = page THEN <<page>>
            ELSE IF g[currentPage] = <<>> THEN <<page>>
            ELSE <<g[currentPage][1], page>>]

\* navigateTo(page) on graph g from currentPage (ossmBle.ts:971-1008): the
\* pages of the go commands it sends, or the error it throws.  The search
\* visits the paths of `queue` in order, i is the next neighbour of the last
\* page of the first path.
navigateTo(g, currentPage, page) ==
    LET RECURSIVE search(_, _, _)
        search(queue, visited, i) ==
            IF queue = <<>> THEN <<>>
            ELSE LET path == Head(queue)
                     node == path[Len(path)]
                 IN  IF i > Len(g[node]) THEN search(Tail(queue), visited, 1)
                     ELSE IF g[node][i] \in visited THEN search(queue, visited, i + 1)
                     ELSE IF g[node][i] = page THEN Append(path, g[node][i])
                     ELSE search(Append(queue, Append(path, g[node][i])),
                                 visited \cup {g[node][i]}, i + 1)
        newPath == search(<<(<<currentPage>>)>>, {currentPage}, 1)
    IN  IF currentPage = page THEN [error |-> "none", go |-> <<>>]
        ELSE IF \E i \in DOMAIN g[currentPage] : g[currentPage][i] = page
        THEN [error |-> "none", go |-> <<page>>]
        ELSE IF newPath = <<>> THEN [error |-> "InvalidState", go |-> <<>>]
        ELSE [error |-> "none", go |-> Tail(newPath)]

\* navigateTo(page) called by the application; args remembers the page the
\* cached status names
CallNavigate(pages) ==
    /\ FreeCalls(Ses) # {}
    /\ \E page \in pages :
          LET from == getCurrentPage(cachedState)
              c == CHOOSE c \in FreeCalls(Ses) : \A d \in FreeCalls(Ses) : c <= d
              args == [page |-> page, from |-> from, ready |-> isReady]
              plan == navigateTo(graph, from, page)
          IN  IF from \in {"InvalidState", "DataError"}
              THEN ApplySes(Finish([Ses EXCEPT !.calls[c] = NewCall("navigateTo", args, <<>>)],
                                   c, from))
              ELSE IF plan.error # "none"
              THEN ApplySes(Finish([Ses EXCEPT !.calls[c] = NewCall("navigateTo", args, <<>>)],
                                   c, plan.error))
              ELSE ApplySes(StartCall(Ses, "navigateTo", args,
                                      <<Phase(<<>>,
                                              [i \in DOMAIN plan.go |->
                                                  [kind |-> "cmd", text |-> <<"go", plan.go[i]>>]],
                                              <<>>)>>))

\* stop() (ossmBle.ts:1081-1090); a call in progress remembers, for the
\* properties, how many commands it had written when stop() cleared the queue
StopCall ==
    /\ FreeCalls(Ses) # {}
    /\ LET c == CHOOSE c \in FreeCalls(Ses) : \A d \in FreeCalls(Ses) : c <= d
           S == [Ses EXCEPT !.calls[c] = NewCall("stop", <<>>, <<>>)]
           T == [S EXCEPT !.calls =
                    [d \in DOMAIN S.calls |->
                        IF d # c /\ S.calls[d].status = "running" /\ S.calls[d].stoppedAt = <<>>
                        THEN [S.calls[d] EXCEPT !.stoppedAt = <<Len(S.calls[d].writes)>>]
                        ELSE S.calls[d]]]
       IN  IF ~isReady THEN ApplySes(Finish(S, c, "ok"))
           ELSE ApplySes(SesEnqueue([T EXCEPT !.q = ClearQueue(@), !.calls[c].pc = "stop"],
                                    c, "stop"))

\* the task of unit u runs: the generation check, then the first transport
\* call of its function, which is a write for every unit but the list read
UnitStarts ==
    \E u \in UnitIds(bleTaskQueue) :
       /\ FirstRunnable(bleTaskQueue, u)
       /\ LET unit == bleTaskQueue.units[u]
              call == calls[unit.owner]
              written ==
                  IF unit.kind = "cmd" THEN <<StepText(CurrentStep(call))>>
                  ELSE IF unit.kind = "stop" THEN <<SetText("speed", 0)>>
                  ELSE IF unit.kind = "patternDescription"
                  THEN << <<"patternDescription", Head(call.todo)>> >>
                  ELSE <<>>
              T == [Ses EXCEPT !.q = StartTask(@, u)]
          IN  IF T.q.units[u].status # "running" THEN ApplySes(T)
              ELSE ApplySes([T EXCEPT !.calls[unit.owner].writes = @ \o written])

\* the rejection of the generation check reaches the call
UnitRejected ==
    \E u \in UnitIds(bleTaskQueue) :
       /\ bleTaskQueue.units[u].status = "aborting"
       /\ \A v \in UnitIds(bleTaskQueue) : ~Runnable(bleTaskQueue, v)
       /\ ApplySes(OnSettled([Ses EXCEPT !.q = RejectStale(@, u),
                                         !.calls[bleTaskQueue.units[u].owner].answer =
                                             <<Outcome("abort", <<>>)>>],
                             bleTaskQueue.units[u].owner, Outcome("abort", <<>>)))

\* what the transport can answer to the unit of a call
Answers(S, u) ==
    LET unit == S.q.units[u]
        call == S.calls[unit.owner]
    IN  {Outcome("error", <<>>)} \cup
        IF unit.kind = "cmd"
        THEN LET text == StepText(CurrentStep(call))
             IN  {Outcome("echo", text), Outcome("echo", <<"fail">> \o text),
                  Outcome("echo", <<>>)}
        ELSE IF unit.kind = "patternList" THEN {Outcome("echo", DevicePatternList)}
        ELSE IF unit.kind = "patternDescription"
        THEN {Outcome("echo", <<"text">>), Outcome("echo", <<"">>)}
        ELSE {Outcome("echo", <<>>)}

\* the function of a unit settles and the call that awaits it resumes
UnitSettles ==
    /\ ~MicrotaskPendingQ(bleTaskQueue)
    /\ \E u \in Running(bleTaskQueue) :
          \E outcome \in Answers(Ses, u) :
             ApplySes(OnSettled(
                 [Ses EXCEPT !.q = SettleTask(@, u, IF outcome.kind = "echo" THEN "ok" ELSE "error"),
                             !.calls[bleTaskQueue.units[u].owner].answer = <<outcome>>],
                 bleTaskQueue.units[u].owner, outcome))

\* gattserverdisconnected: onDisconnected marks the client not ready (ossmBle.ts:613)
LinkLost ==
    /\ ~MicrotaskPendingQ(bleTaskQueue)
    /\ isReady
    /\ ApplySes([Ses EXCEPT !.isReady = FALSE])

\* connect() clears the queue, its unit marks the client ready
LinkRestored ==
    /\ ~MicrotaskPendingQ(bleTaskQueue)
    /\ ~isReady
    /\ ApplySes([Ses EXCEPT !.q = ClearQueue(@), !.isReady = TRUE])

\* Date.now() advances between two status notifications
TimePasses ==
    /\ ~MicrotaskPendingQ(bleTaskQueue)
    /\ now < (MaxTicks + 1) * TickMs
    /\ lastPoll = now
    /\ ApplySes([Ses EXCEPT !.now = @ + TickMs])

\* ------------------------------------------- the reconciler under setters
\* setSpeed(2) or setStroke(2): the device can report the intermediate value
\* 1 and the other value 0
LevelSetterCall ==
    /\ \E c \in DOMAIN calls : calls[c].status # "running"
    /\ CallSetter({"speed", "stroke"}, {Num(2, 0)})

\* the device on the stroke engine page, only speed and stroke are touched
SpeedStrokePush ==
    /\ ~MicrotaskPendingQ(bleTaskQueue)
    /\ StatusNotification({j \in PushedJson : /\ j.state = "strokeEngine.idle"
                                              /\ j.speed \in Levels
                                              /\ j.stroke \in Levels
                                              /\ j.sensation = 0
                                              /\ j.depth = 0
                                              /\ j.pattern = 0})

NextR ==
    \/ SpeedStrokePush
    \/ LevelSetterCall
    \/ UnitStarts
    \/ UnitSettles
    \/ LinkRestored
    \/ TimePasses

SpecR == Init /\ [][NextR]_vars

\* C11: while the pending targets hold an entry that the delivered status
\* notification neither matches (pushed value equal to the target) nor
\* supersedes (pushed value changed and neither the target nor the target
\* minus 1), the notification dispatches no StateChanged and the cached
\* snapshot is not replaced; this holds for every notification of a run,
\* however many were delivered before.
C11_WithheldWhilePending ==
    [][(/\ pushes' # <<>>
        /\ \E i \in DOMAIN pendingStateTarget :
              LET entry == pendingStateTarget[i]
                  pushed == Remap(pushes'[1])[entry.key]
              IN  /\ pushed # entry.value
                  /\ \/ /\ entry.key \in DOMAIN cachedState
                        /\ pushed = cachedState[entry.key]
                     \/ pushed = entry.value - 1)
       => (cachedState' = cachedState /\ stateChanged' = <<>>)]_vars

\* a notification reported target - 1 for a pending field (and so differed
\* from the snapshot), nothing was dispatched and the entry is still pending
C11_Witness ==
    /\ pushes # <<>>
    /\ cachedState # <<>>
    /\ stateChanged = <<>>
    /\ \E i \in DOMAIN pendingStateTarget :
          LET entry == pendingStateTarget[i]
          IN  /\ Remap(pushes[1])[entry.key] = entry.value - 1
              /\ cachedState[entry.key] # entry.value - 1

\* C12: a status notification whose remapped fields all equal the cached
\* snapshot dispatches no StateChanged and leaves the snapshot and the
\* pending targets as they were; of the client's fields only lastPoll
\* changes, to the time of arrival.
C12_IdenticalPushIgnored ==
    [][(pushes' # <<>> /\ Remap(pushes'[1]) = cachedState)
       => (/\ stateChanged' = <<>>
           /\ cachedState' = cachedState
           /\ pendingStateTarget' = pendingStateTarget
           /\ lastPoll' = now
           /\ isReady' = isReady
           /\ cachedPatternList' = cachedPatternList
           /\ lastFixedPosition' = lastFixedPosition
           /\ bleTaskQueue' = Collect(bleTaskQueue, Settled(bleTaskQueue)))]_vars

\* an identical notification arrived later than the one before it and while
\* a target was pending: only lastPoll moved
C12_Witness ==
    /\ pushes # <<>>
    /\ Remap(pushes[1]) = cachedState
    /\ stateChanged = <<>>
    /\ pendingStateTarget # <<>>
    /\ lastPoll = now
    /\ now > TickMs

\* ---------------------------------------------- the setters, one at a time
\* arguments around the limits of the range, integral and not
ArgNumbers ==
    {Num(i, 0) : i \in {-1, 0, 1, 50, 99, 100, 101}} \cup {Num(i, 1) : i \in {-1, 0, 99, 100}}

\* a setter is called while no other call is in progress
RangeSetterCall ==
    /\ \A c \in DOMAIN calls : calls[c].status # "running"
    /\ \/ CallSetter({"speed", "stroke", "depth", "sensation"}, ArgNumbers)
       \/ CallSetter({"pattern"}, {Num(-1, 0), Num(0, 0), Num(0, 1), Num(6, 0), Num(7, 0)})

\* sendCommand is called while no other call is in progress
CommandCall ==
    /\ \A c \in DOMAIN calls : calls[c].status # "running"
    /\ CallSendCommand({<<"go", "menu">>, <<>>})

\* the device reports the same level for every field
LevelPush ==
    /\ ~MicrotaskPendingQ(bleTaskQueue)
    /\ StatusNotification({j \in PushedJson : /\ j.state = "strokeEngine.idle"
                                              /\ j.pattern = 6
                                              /\ j.stroke = j.speed
                                              /\ j.depth = j.speed
                                              /\ j.sensation = j.speed})

NextC ==
    \/ RangeSetterCall
    \/ CommandCall
    \/ LevelPush
    \/ UnitStarts
    \/ UnitSettles
    \/ LinkRestored

SpecC == Init /\ [][NextC]_vars

\* C13: a call of setSpeed, setStroke, setDepth or setSensation with an
\* argument that is not an integer in [0,100] is rejected with a RangeError
\* by the call itself: it has enqueued nothing, written nothing and
\* registered no pending target, whether the client is ready or not.
C13_InvalidArgumentRejected ==
    \A c \in DOMAIN calls :
       LET call == calls[c]
       IN  (/\ call.op = "set"
            /\ call.args.key # "pattern"
            /\ ~(call.args.value.half = 0 /\ call.args.value.int \in 0..100))
           => (/\ call.status = "RangeError"
               /\ call.enqueued = 0
               /\ call.writes = <<>>
               /\ ~call.registered)

\* a non-integral argument was rejected while the client was ready and a
\* snapshot was cached
C13_Witness ==
    \E c \in DOMAIN calls :
       /\ calls[c].op = "set"
       /\ calls[c].args.key = "depth"
       /\ calls[c].args.value = Num(99, 1)
       /\ calls[c].status = "RangeError"
       /\ isReady
       /\ cachedState # <<>>
       /\ pendingStateTarget = <<>>

\* C14: when the client is ready and the requested integer v of [0,100]
\* differs from the cached value, a raw setter enqueues one unit that
\* writes exactly one command, whose number is v for setSpeed, v - 1 for
\* setStroke, setDepth and setSensation when v is in 1..99 and v itself when
\* v is 0 or 100; when the device echoes that command verbatim the setter
\* succeeds.
C14_SetterPayload ==
    \A c \in DOMAIN calls :
       LET call == calls[c]
           v == call.args.value.int
           command == <<"set", call.args.key,
                        IF call.args.key # "speed" /\ v \in 1..99 THEN v - 1 ELSE v>>
       IN  (/\ call.op = "set"
            /\ call.args.key # "pattern"
            /\ call.args.value.half = 0
            /\ v \in 0..100
            /\ call.args.ready
            /\ ~call.args.same)
           => (/\ call.writes \in {<<>>, <<command>>}
               /\ call.enqueued = 1
               /\ call.status # "running" => call.answer # <<>>
               /\ call.answer = <<Outcome("echo", command)>>
                     => (call.status = "ok" /\ call.writes = <<command>>))

\* setStroke(50) succeeded after writing set:stroke:49 while another stroke
\* was cached
C14_Witness ==
    \E c \in DOMAIN calls :
       /\ calls[c].op = "set"
       /\ calls[c].args.key = "stroke"
       /\ calls[c].args.value = Num(50, 0)
       /\ calls[c].args.ready
       /\ calls[c].status = "ok"
       /\ calls[c].writes = <<(<<"set", "stroke", 49>>)>>
       /\ cachedState # <<>>

\* C15: a call of setSpeed, setStroke, setDepth, setSensation or setPattern
\* with the value the cached snapshot holds for the field returns
\* successfully at once, having enqueued no unit, written nothing and
\* registered no pending target.
C15_EqualValueNoEffect ==
    \A c \in DOMAIN calls :
       (calls[c].op = "set" /\ calls[c].args.same)
       => (/\ calls[c].status = "ok"
           /\ calls[c].enqueued = 0
           /\ calls[c].writes = <<>>
           /\ ~calls[c].registered)

\* C17: sendCommand(text) called while the client is not ready fails with
\* InvalidState and neither enqueues nor writes; called while ready it writes
\* text and nothing else, and, once the command channel has been read back,
\* it succeeds if and only if the echo is text, fails with OperationError
\* when the echo is "fail:" followed by text and with DataError for every
\* other echo.
C17_SendCommandOutcome ==
    \A c \in DOMAIN calls :
       LET call == calls[c]
           text == call.args.text
       IN  call.op = "sendCommand"
           => /\ ~call.args.ready
                 => (call.status = "InvalidState" /\ call.enqueued = 0 /\ call.writes = <<>>)
              /\ call.args.ready
                 => /\ call.writes \in {<<>>, <<text>>}
                    /\ call.status = "ok"
                          <=> (call.answer # <<>> /\ call.answer[1] = Outcome("echo", text))
                    /\ (call.answer # <<>> /\ call.answer[1].kind = "echo")
                          => /\ call.writes = <<text>>
                             /\ call.status = IF call.answer[1].text = text THEN "ok"
                                              ELSE IF call.answer[1].text = <<"fail">> \o text
                                              THEN "OperationError"
                                              ELSE "DataError"

\* the device answered go:menu with fail:go:menu and the call failed with
\* OperationError
C17_Witness ==
    \E c \in DOMAIN calls :
       /\ calls[c].op = "sendCommand"
       /\ calls[c].args.text = <<"go", "menu">>
       /\ calls[c].writes = <<(<<"go", "menu">>)>>
       /\ calls[c].answer = <<Outcome("echo", <<"fail", "go", "menu">>)>>
       /\ calls[c].status = "OperationError"

\* ------------------------------------ pending targets under overlapping calls
\* the settings the application asks for: the device reports them but for
\* the depth
PlayData == [speed |-> 1, stroke |-> 100, depth |-> 1, sensation |-> 100, pattern |-> 6]

\* Two operations overlap: a call is made while at most one other call is
\* in progress.  The link is lost while a unit waits behind another one, so
\* that the clear of the queue by the next connect aborts a unit.
NextP ==
    \/ /\ Cardinality({c \in DOMAIN calls : calls[c].status = "running"}) <= 1
       /\ CallSetter({"speed"}, {Num(2, 0)})
    \/ /\ Cardinality({c \in DOMAIN calls : calls[c].status = "running"}) <= 1
       /\ CallComposite("runStrokeEnginePattern", {[data |-> PlayData]})
    \/ /\ Cardinality({c \in DOMAIN calls : calls[c].status = "running"}) <= 1
       /\ CallComposite("moveToPosition", {[position |-> Num(1, 0), speed |-> Num(1, 0)]})
    \/ /\ Cardinality({c \in DOMAIN calls : calls[c].status = "running"}) <= 1
       /\ CallComposite("batchSet", {[data |-> <<(<<"depth", 1>>), <<"speed", 101>>>>]})
    \/ /\ ~MicrotaskPendingQ(bleTaskQueue)
       /\ StatusNotification({j \in PushedJson : /\ j.state = "strokeEngine.idle"
                                                 /\ j.pattern = 6
                                                 /\ j.speed = 1
                                                 /\ j.stroke = 100
                                                 /\ j.sensation = 100
                                                 /\ j.depth \in {0, 1}})
    \/ StatePolled
    \/ UnitStarts
    \/ UnitSettles
    \/ UnitRejected
    \/ /\ Cardinality(Unsettled(bleTaskQueue)) > 1
       /\ LinkLost
    \/ LinkRestored

SpecP == Init /\ [][NextP]_vars

\* C16: whenever no setter and no composite operation is in progress, the
\* pending targets are empty, whatever operations ran before, succeeded,
\* failed or were aborted, one after the other or overlapping.
C16_PendingReleased ==
    (\A c \in DOMAIN calls : calls[c].status = "running" => calls[c].op = "stop")
    => pendingStateTarget = <<>>

\* runStrokeEnginePattern was aborted by a clear of the queue after one of
\* its setters had registered its target, and nothing is left pending
C16_Witness ==
    /\ pendingStateTarget = <<>>
    /\ \A c \in DOMAIN calls : calls[c].status = "running" => calls[c].op = "stop"
    /\ \E c \in DOMAIN calls :
          /\ calls[c].op = "runStrokeEnginePattern"
          /\ calls[c].status = "AbortError"
          /\ calls[c].registered

\* ----------------------------------- runStrokeEnginePattern, one at a time
\* the device on the stroke engine page at speed 1 or 2, depth 0 or 1
StrokePush ==
    /\ ~MicrotaskPendingQ(bleTaskQueue)
    /\ StatusNotification({j \in PushedJson : /\ j.state = "strokeEngine.idle"
                                              /\ j.speed \in {1, 2}
                                              /\ j.depth \in {0, 1}
                                              /\ j.stroke = 1
                                              /\ j.sensation = 0})

\* runStrokeEnginePattern is called while no other call is in progress:
\* Insist at speed 1 or 2, range [depth - stroke, depth] below, at or above
\* the reported one, sensation as reported or one higher
StrokePatternCall ==
    /\ \A c \in DOMAIN calls : calls[c].status # "running"
    /\ CallComposite("runStrokeEnginePattern",
                     {[data |-> d] : d \in [speed : {1, 2}, stroke : {1, 2}, depth : {0, 2},
                                            sensation : {0, 1}, pattern : {6}]})

NextS ==
    \/ StrokePush
    \/ StrokePatternCall
    \/ StatePolled
    \/ UnitStarts
    \/ UnitSettles
    \/ LinkRestored

SpecS == Init /\ [][NextS]_vars

\* C20: in runStrokeEnginePattern with a new speed below the captured one,
\* every depth or stroke write of the call comes after its write of the new
\* speed.
C20_SpeedWrittenFirst ==
    \A c \in DOMAIN calls :
       LET call == calls[c]
       IN  (/\ call.op = "runStrokeEnginePattern"
            /\ call.capturedState # <<>>
            /\ call.args.data.speed < call.capturedState[1].speed)
           => \A i \in DOMAIN call.writes :
                 (call.writes[i][1] = "set" /\ call.writes[i][2] \in {"depth", "stroke"})
                 => \E j \in 1..(i - 1) :
                       call.writes[j] = <<"set", "speed", call.args.data.speed>>

\* C20 as the code has it: in runStrokeEnginePattern with a new speed below
\* the captured one, setSpeed is called before setDepth and setStroke, and
\* every depth or stroke write of the call comes after the write of the new
\* speed was issued and acknowledged, or after setSpeed found the new speed
\* in the cached snapshot and wrote nothing.
C20_SpeedAppliedFirst ==
    \A c \in DOMAIN calls :
       LET call == calls[c]
       IN  (/\ call.op = "runStrokeEnginePattern"
            /\ call.capturedState # <<>>
            /\ call.args.data.speed < call.capturedState[1].speed)
           => \A i \in DOMAIN call.writes :
                 (call.writes[i][1] = "set" /\ call.writes[i][2] \in {"depth", "stroke"})
                 => \/ \E j \in 1..(i - 1) :
                          call.writes[j] = <<"set", "speed", call.args.data.speed>>
                    \/ \E k \in DOMAIN call.skipped : call.skipped[k] = "speed"

\* the speed went down from 2 to 1 and the depth was written after the speed
C20_Witness ==
    \E c \in DOMAIN calls :
       /\ calls[c].op = "runStrokeEnginePattern"
       /\ calls[c].capturedState # <<>>
       /\ calls[c].capturedState[1].speed = 2
       /\ calls[c].args.data.speed = 1
       /\ Len(calls[c].writes) > 1
       /\ calls[c].writes[Len(calls[c].writes) - 1] = <<"set", "speed", 1>>
       /\ calls[c].writes[Len(calls[c].writes)] = <<"set", "depth", 1>>

\* ------------------------------------------------------------- navigation
\* The graph is any graph over the three pages in which no page leads to
\* itself and no page is listed twice; the firmware's graph is one of them.
InitN ==
    /\ Constructed
    /\ graph \in [{"menu", "simplePenetration", "strokeEngine"} ->
                     {<<>>} \cup {<<p>> : p \in {"menu", "simplePenetration", "strokeEngine"}}
                     \cup {<<p, q>> : p, q \in {"menu", "simplePenetration", "strokeEngine"}}]
    /\ \A p \in DOMAIN graph :
          /\ \A i \in DOMAIN graph[p] : graph[p][i] # p
          /\ \A i, j \in DOMAIN graph[p] : graph[p][i] = graph[p][j] => i = j

\* navigateTo is called while no other call is in progress
NavigateCall ==
    /\ \A c \in DOMAIN calls : calls[c].status # "running"
    /\ CallNavigate({"menu", "simplePenetration", "strokeEngine"})

\* the first status notification: the device reports the page it shows
PagePush ==
    /\ ~MicrotaskPendingQ(bleTaskQueue)
    /\ cachedState = <<>>
    /\ StatusNotification({j \in PushedJson : /\ j.speed = 0
                                              /\ j.stroke = 0
                                              /\ j.sensation = 0
                                              /\ j.depth = 0
                                              /\ j.pattern = 0})

NextN ==
    \/ NavigateCall
    \/ PagePush
    \/ UnitStarts
    \/ UnitSettles
    \/ LinkRestored

SpecN == InitN /\ [][NextN]_vars

\* C18: on the firmware's graph, for every current page and target page,
\* the go commands navigateTo has written follow edges of the graph from the
\* current page, they are never more than the length of the shortest path
\* to the target, and a call that succeeded wrote exactly that many, the
\* last one naming the target: none when already on the page, one from Menu
\* to StrokeEngine, two (go:menu, go:strokeEngine) from SimplePenetration to
\* StrokeEngine.
C18_ShortestPathCommands ==
    \A c \in DOMAIN calls :
       LET call == calls[c]
           edge(a, b) == \E i \in DOMAIN graph[a] : graph[a][i] = b
           distance == IF call.args.from = call.args.page THEN 0
                       ELSE IF edge(call.args.from, call.args.page) THEN 1
                       ELSE 2
           at(i) == IF i = 0 THEN call.args.from ELSE call.writes[i][2]
       IN  (/\ call.op = "navigateTo"
            /\ graph = OSSM_PAGE_NAVIGATION_GRAPH
            /\ call.args.from \in DOMAIN graph)
           => /\ Len(call.writes) <= distance
              /\ \A i \in DOMAIN call.writes :
                    /\ call.writes[i][1] = "go"
                    /\ Len(call.writes[i]) = 2
                    /\ edge(at(i - 1), at(i))
              /\ call.status = "ok"
                    => (Len(call.writes) = distance /\ at(distance) = call.args.page)
              /\ (call.args.ready /\ call.status # "running" /\ distance > 0)
                    => call.answer # <<>>

\* from SimplePenetration to StrokeEngine: go:menu, then go:strokeEngine
C18_Witness ==
    \E c \in DOMAIN calls :
       /\ graph = OSSM_PAGE_NAVIGATION_GRAPH
       /\ calls[c].op = "navigateTo"
       /\ calls[c].args.from = "simplePenetration"
       /\ calls[c].args.page = "strokeEngine"
       /\ calls[c].status = "ok"
       /\ calls[c].writes = <<(<<"go", "menu">>), <<"go", "strokeEngine">>>>

\* C19: on any graph in which the target page cannot be reached from the
\* current page, navigateTo fails with InvalidState at once, having issued
\* no go command.
C19_UnreachableRejected ==
    \A c \in DOMAIN calls :
       LET call == calls[c]
           edge(a, b) == \E i \in DOMAIN graph[a] : graph[a][i] = b
           reachable(a, b) == \/ a = b
                              \/ edge(a, b)
                              \/ \E m \in DOMAIN graph : edge(a, m) /\ edge(m, b)
       IN  (/\ call.op = "navigateTo"
            /\ call.args.from \in DOMAIN graph
            /\ ~reachable(call.args.from, call.args.page))
           => (/\ call.status = "InvalidState"
               /\ call.enqueued = 0
               /\ call.writes = <<>>)

\* Menu leads to SimplePenetration only, which leads back: StrokeEngine
\* cannot be reached and the call was rejected while the client was ready
C19_Witness ==
    \E c \in DOMAIN calls :
       /\ graph.menu = <<"simplePenetration">>
       /\ graph.simplePenetration = <<"menu">>
       /\ calls[c].op = "navigateTo"
       /\ calls[c].args.from = "menu"
       /\ calls[c].args.page = "strokeEngine"
       /\ calls[c].args.ready
       /\ calls[c].status = "InvalidState"

\* the call raises the speed and extends the range beyond the captured one
RiskyExtension(call) ==
    /\ call.op = "runStrokeEnginePattern"
    /\ call.capturedState # <<>>
    /\ call.args.data.speed > call.capturedState[1].speed
    /\ \/ call.args.data.depth - call.args.data.stroke
             < call.capturedState[1].depth - call.capturedState[1].stroke
       \/ call.args.data.depth > call.capturedState[1].depth

\* C21: in runStrokeEnginePattern raising the speed with an extended range,
\* depth, stroke and sensation are written before the speed, the speed write
\* being the last write of the call.
C21_SpeedWrittenLast ==
    \A c \in DOMAIN calls :
       RiskyExtension(calls[c])
       => \A i \in DOMAIN calls[c].writes :
             calls[c].writes[i] = <<"set", "speed", calls[c].args.data.speed>>
             => i = Len(calls[c].writes)

\* C21 as the code has it: in runStrokeEnginePattern raising the speed with
\* an extended range, no depth or stroke write of the call follows its speed
\* write, and the sensation write, the last of the call, is not made before
\* setSpeed has run.
C21_DepthStrokeBeforeSpeed ==
    \A c \in DOMAIN calls :
       LET call == calls[c]
       IN  RiskyExtension(call)
           => \A i \in DOMAIN call.writes :
                 /\ call.writes[i] = <<"set", "speed", call.args.data.speed>>
                    => \A j \in (i + 1)..Len(call.writes) :
                          /\ call.writes[j][1] = "set"
                          /\ call.writes[j][2] = "sensation"
                 /\ (call.writes[i][1] = "set" /\ call.writes[i][2] = "sensation")
                    => /\ i = Len(call.writes)
                       /\ \/ \E j \in 1..(i - 1) :
                                call.writes[j] = <<"set", "speed", call.args.data.speed>>
                          \/ \E k \in DOMAIN call.skipped : call.skipped[k] = "speed"

\* the speed went up from 1 to 2 with the depth raised to 2: depth, then
\* speed, then sensation were written
C21_Witness ==
    \E c \in DOMAIN calls :
       /\ RiskyExtension(calls[c])
       /\ calls[c].capturedState[1].speed = 1
       /\ calls[c].args.data.depth = 2
       /\ Len(calls[c].writes) > 2
       /\ \E i \in 1..(Len(calls[c].writes) - 2) :
             calls[c].writes[i] = <<"set", "depth", 1>>
       /\ calls[c].writes[Len(calls[c].writes) - 1] = <<"set", "speed", 2>>
       /\ calls[c].writes[Len(calls[c].writes)] = <<"set", "sensation", 0>>

\* ------------------------- composite operations, one at a time, on any page
\* the device reports any page, Insist at speed 1 with depth 0 or 1,
\* configured for moveToPosition (stroke 100) or not (stroke 1);
\* runStrokeEnginePattern, moveToPosition or setSpeed is called while no
\* other call is in progress, moveToPosition with position 1, 2 or 101 and
\* speed 2 or 0.5, setSpeed with 2 or 101
NextM ==
    \/ /\ ~MicrotaskPendingQ(bleTaskQueue)
       /\ StatusNotification({j \in PushedJson : /\ j.pattern = 6
                                                 /\ j.speed = 1
                                                 /\ j.stroke \in {1, 100}
                                                 /\ j.sensation = 100
                                                 /\ j.depth \in {0, 1}})
    \/ /\ \A c \in DOMAIN calls : calls[c].status # "running"
       /\ CallComposite("runStrokeEnginePattern", {[data |-> PlayData]})
    \/ /\ \A c \in DOMAIN calls : calls[c].status # "running"
       /\ CallComposite("moveToPosition",
                        [position : {Num(1, 0), Num(2, 0), Num(101, 0)},
                         speed : {Num(2, 0), Num(0, 1)}])
    \/ /\ \A c \in DOMAIN calls : calls[c].status # "running"
       /\ CallSetter({"speed"}, {Num(2, 0), Num(101, 0)})
    \/ StatePolled
    \/ UnitStarts
    \/ UnitSettles
    \/ LinkRestored

SpecM == Init /\ [][NextM]_vars

\* C22: runStrokeEnginePattern and moveToPosition that find the cached status
\* on a page other than the stroke engine (the menu, simple penetration) fail with InvalidState, having
\* written no command, enqueued no unit and registered no pending target.
C22_WrongPageRejected ==
    \A c \in DOMAIN calls :
       LET call == calls[c]
       IN  (/\ call.op \in {"runStrokeEnginePattern", "moveToPosition"}
            /\ call.capturedState # <<>>
            /\ call.capturedState[1].status \in {"menu", "simplePenetration.idle"})
           => /\ call.status = "InvalidState"
              /\ call.writes = <<>>
              /\ call.enqueued = 0
              /\ ~call.registered
              /\ pendingStateTarget = <<>>

\* moveToPosition found the device on the simple penetration page and was
\* refused
C22_Witness ==
    \E c \in DOMAIN calls :
       /\ calls[c].op = "moveToPosition"
       /\ calls[c].status = "InvalidState"
       /\ calls[c].capturedState # <<>>
       /\ calls[c].capturedState[1].status = "simplePenetration.idle"
       /\ calls[c].writes = <<>>

\* ------------------------------------------------ the client and waitForReady
\* the connection engine (without commands, clock and status notifications)
\* with one call of waitForReady() at a time: the application calls it, and
\* the timer of its delay(100) fires
NextW ==
    \/ Begin
    \/ End
    \/ TaskRun
    \/ AbortSettle
    \/ LoopCheck
    \/ GattConnectDone
    \/ DelayDone
    \/ DiscoverDone
    \/ SubscribeDone
    \/ StopWriteDone
    \/ LinkDrop
    \/ LoopRetry
    \/ /\ obs.waitForReady = "none"
       /\ Apply(waitForReady(Cur))
    \/ /\ ~MicrotaskPending(Cur)
       /\ obs.waitForReady = "polling"
       /\ Apply(waitForReady(Cur))

SpecW == Init /\ [][NextW]_vars

\* C23: when a call of waitForReady() resolves, the Connected event of the
\* connection that made the client ready has been dispatched to the
\* listeners and no Disconnected event since: the client is never seen
\* ready before Connected has fired.
C23_ConnectedBeforeReady ==
    /\ obs.waitForReady = "resolved" => obs.lastEvent = "Connected"
    /\ isReady => obs.lastEvent = "Connected"

\* waitForReady() is called right after the connection of the reconnect loop
\* succeeded, before the loop has run its check, and resolves at once
C23_Witness ==
    /\ obs.waitForReady = "resolved"
    /\ obs.lastEvent = "Connected"
    /\ isReady
    /\ \E l \in DOMAIN loops : loops[l].pc = "check"

\* C24: setPattern(id) writes set:pattern only for a non-negative integer id
\* that is in the pattern list; a negative id is refused with RangeError by
\* the call itself, an id that the list (cached, or fetched by the call)
\* lacks is refused with RangeError without a set:pattern write, and an id
\* of the list is never refused with RangeError.
C24_PatternValidated ==
    \A c \in DOMAIN calls :
       LET call == calls[c]
           id == call.args.value
           listed == /\ id.half = 0
                     /\ \E i \in DOMAIN DevicePatternList : DevicePatternList[i] = id.int
       IN  (call.op = "set" /\ call.args.key = "pattern")
           => /\ \A i \in DOMAIN call.writes :
                    (call.writes[i][1] = "set" /\ call.writes[i][2] = "pattern")
                    => (listed /\ call.writes[i] = <<"set", "pattern", id.int>>)
              /\ id.int < 0
                 => (call.status = "RangeError" /\ call.enqueued = 0 /\ call.writes = <<>>)
              /\ (~listed /\ call.status # "running" /\ cachedPatternList # <<>>)
                 => call.status = "RangeError"
              /\ listed => call.status # "RangeError"

\* setPattern(7) fetched the list <<0, 6>> and was refused
C24_Witness ==
    \E c \in DOMAIN calls :
       /\ calls[c].op = "set"
       /\ calls[c].args.key = "pattern"
       /\ calls[c].args.value = Num(7, 0)
       /\ calls[c].enqueued > 0
       /\ cachedPatternList = <<DevicePatternList>>
       /\ calls[c].status = "RangeError"

\* C25: moveToPosition(position, speed) on the stroke engine page with a
\* position or a speed that is not an integer in [0,100] fails with
\* RangeError, having enqueued no unit and written no command.
C25_InvalidMoveRejected ==
    \A c \in DOMAIN calls :
       LET call == calls[c]
       IN  (/\ call.op = "moveToPosition"
            /\ OutOfRange(call.args.position) \/ OutOfRange(call.args.speed)
            /\ call.capturedState # <<>>
            /\ call.capturedState[1].status = "strokeEngine.idle")
           => /\ call.writes = <<>>
              /\ call.enqueued = 0
              /\ call.status \in {"running", "RangeError"}

\* C26: after a ready client lost the link and reconnected with the last
\* push older than the threshold, while the reconnect loop is about to issue
\* the safety stop (its connect() has returned, no stop write was started
\* yet), no command of the application has been written to the device: the
\* only commands in progress are those the lost link had interrupted.
C26_NoCommandBeforeStop ==
    \A l \in DOMAIN loops :
       (/\ isReady
        /\ obs.safetyStopOwed
        /\ loops[l].pc = "check"
        /\ SafetyStopDue(loops[l].lastPollCaptured, now))
       => \A u \in Running(bleTaskQueue) :
             bleTaskQueue.units[u].kind = "cmd" => bleTaskQueue.units[u].linkLost

\* ------------------------------------------------- the queue, fair worker
\* Promise reaction jobs are run as soon as the running job has returned: the
\* task of a unit at the head of its chain does not wait forever.
SpecQF == Init /\ [][NextQ]_vars /\ WF_vars(QTaskRun)

\* unit u has not started, no clearQueue() has invalidated it and every unit
\* enqueued before it has settled
StartDue(u) ==
    /\ bleTaskQueue.units[u].status = "queued"
    /\ bleTaskQueue.units[u].capturedGeneration = bleTaskQueue.generation
    /\ \A v \in 1..(u - 1) : bleTaskQueue.units[v].status = "done"

\* C27: a unit whose function rejected does not block the queue: a unit
\* enqueued after it that no clearQueue() invalidated is started (or
\* invalidated) once the earlier units have settled, and the failure is
\* delivered to no other unit: a unit that has not settled has no result.
C27_FailureNeverBlocks ==
    /\ [](\A u \in UnitIds(bleTaskQueue) :
             bleTaskQueue.units[u].status # "done" => bleTaskQueue.units[u].result = "none")
    /\ (\E u \in UnitIds(bleTaskQueue) :
           /\ StartDue(u)
           /\ \E v \in 1..(u - 1) : bleTaskQueue.units[v].result # "ok")
       ~> (\A u \in UnitIds(bleTaskQueue) : ~StartDue(u))

\* the function of a unit has rejected and the unit enqueued after it is the
\* next to start
C27_Witness ==
    \E u \in UnitIds(bleTaskQueue) :
       /\ StartDue(u)
       /\ bleTaskQueue.units[u].pred \in 1..(u - 1)
       /\ bleTaskQueue.units[bleTaskQueue.units[u].pred].result = "error"

\* entry i of the pending targets and the notification json: the pushed value
\* differs from the cached one and is the target minus 1
Transitional(i, json) ==
    LET entry == pendingStateTarget[i]
        pushed == Remap(json)[entry.key]
    IN  /\ pushed = entry.value - 1
        /\ entry.key \in DOMAIN cachedState => pushed # cachedState[entry.key]

\* C28: a status notification that reports, for some pending field, a changed
\* value equal to the target minus 1 only records the arrival time: no
\* StateChanged is dispatched, the cached snapshot and the pending targets
\* stay as they were, whatever else the notification reports.
C28_TransitionalPushIgnored ==
    [][(/\ pushes' # <<>>
        /\ \E i \in DOMAIN pendingStateTarget : Transitional(i, pushes'[1]))
       => (/\ stateChanged' = <<>>
           /\ cachedState' = cachedState
           /\ pendingStateTarget' = pendingStateTarget
           /\ lastPoll' = now)]_vars

\* C28 as the code has it: such a notification records the arrival time,
\* dispatches no StateChanged and leaves the cached snapshot as it was; the
\* pass stops at the first transitional entry, which stays pending with
\* every entry registered after it, while the entries registered before it
\* whose field changed have been deleted (target reached, or superseded).
C28_TransitionalPushWithheld ==
    [][(/\ pushes' # <<>>
        /\ \E i \in DOMAIN pendingStateTarget : Transitional(i, pushes'[1]))
       => LET first == CHOOSE i \in DOMAIN pendingStateTarget :
                          /\ Transitional(i, pushes'[1])
                          /\ \A j \in 1..(i - 1) : ~Transitional(j, pushes'[1])
              unchanged(j) ==
                  /\ pendingStateTarget[j].key \in DOMAIN cachedState
                  /\ Remap(pushes'[1])[pendingStateTarget[j].key]
                        = cachedState[pendingStateTarget[j].key]
              kept == {j \in DOMAIN pendingStateTarget : j >= first \/ unchanged(j)}
          IN  /\ stateChanged' = <<>>
              /\ cachedState' = cachedState
              /\ lastPoll' = now
              /\ Len(pendingStateTarget') = Cardinality(kept)
              /\ \A j \in kept :
                    pendingStateTarget'[Cardinality({k \in kept : k <= j})]
                       = pendingStateTarget[j]]_vars

\* speed and stroke were pending; the notification reported the target of
\* the first and the target minus 1 of the second: nothing was dispatched,
\* the first entry is gone and the second is still pending
C28_Witness ==
    /\ pushes # <<>>
    /\ cachedState # <<>>
    /\ stateChanged = <<>>
    /\ Len(pendingStateTarget) = 1
    /\ Remap(pushes[1])[pendingStateTarget[1].key] = pendingStateTarget[1].value - 1
    /\ cachedState[pendingStateTarget[1].key] # pendingStateTarget[1].value - 1
    /\ \E k \in {"speed", "stroke"} :
          /\ k # pendingStateTarget[1].key
          /\ Remap(pushes[1])[k] = 2
          /\ cachedState[k] # 2
          /\ \E c \in DOMAIN calls :
                calls[c].status = "running" /\ calls[c].args.key = k

\* entry i of the pending targets and the notification json: the pushed value
\* differs from the cached one and is neither the target nor the target
\* minus 1
Superseded(i, json) ==
    LET entry == pendingStateTarget[i]
        pushed == Remap(json)[entry.key]
    IN  /\ pushed # entry.value
        /\ pushed # entry.value - 1
        /\ entry.key \in DOMAIN cachedState => pushed # cachedState[entry.key]

\* C29: a status notification that reports, for a pending field, a changed
\* value that is neither the target nor the target minus 1 deletes that
\* pending entry; when no entry is pending after the notification, the
\* remapped notification is the cached snapshot and it was dispatched in
\* exactly one StateChanged.
C29_SupersededCleared ==
    [][(/\ pushes' # <<>>
        /\ \E i \in DOMAIN pendingStateTarget : Superseded(i, pushes'[1]))
       => (/\ \A i \in DOMAIN pendingStateTarget :
                 Superseded(i, pushes'[1])
                 => \A j \in DOMAIN pendingStateTarget' :
                       pendingStateTarget'[j].key # pendingStateTarget[i].key
           /\ pendingStateTarget' = <<>>
              => (/\ cachedState' = Remap(pushes'[1])
                  /\ stateChanged' = <<Remap(pushes'[1])>>))]_vars

\* C29 as the code has it: the pass visits the pending entries in the order
\* they were registered and stops at the first whose changed value is the
\* target minus 1; a superseded entry is deleted when the pass reaches it
\* and stays pending when an entry registered before it stopped the pass.
\* When no entry is pending after the notification, the remapped notification
\* is the cached snapshot and it was dispatched in exactly one StateChanged.
C29_SupersededClearedWhenVisited ==
    [][(/\ pushes' # <<>>
        /\ \E i \in DOMAIN pendingStateTarget : Superseded(i, pushes'[1]))
       => (/\ \A i \in DOMAIN pendingStateTarget :
                 Superseded(i, pushes'[1])
                 => ((\E j \in DOMAIN pendingStateTarget' :
                         pendingStateTarget'[j] = pendingStateTarget[i])
                     <=> (\E k \in 1..(i - 1) : Transitional(k, pushes'[1])))
           /\ pendingStateTarget' = <<>>
              => (/\ cachedState' = Remap(pushes'[1])
                  /\ stateChanged' = <<Remap(pushes'[1])>>))]_vars

\* the only pending target, 2, was superseded by a notification reporting 0
\* for its field: the notification was adopted and dispatched
C29_Witness ==
    /\ pushes # <<>>
    /\ pendingStateTarget = <<>>
    /\ cachedState = Remap(pushes[1])
    /\ stateChanged = <<cachedState>>
    /\ \E c \in DOMAIN calls :
          /\ calls[c].status = "running"
          /\ calls[c].pc = "cmd"
          /\ calls[c].registered
          /\ cachedState[calls[c].args.key] = 0
          /\ \A d \in DOMAIN calls : d # c => calls[d].status # "running"

\* C30: whenever no setter and no composite operation is in progress,
\* whichever operations failed before, a status notification that differs
\* from the cached snapshot replaces it and is dispatched in one StateChanged.
C30_AdoptedAfterFailure ==
    [][(/\ pushes' # <<>>
        /\ \A c \in DOMAIN calls : calls[c].status # "running"
        /\ Remap(pushes'[1]) # cachedState)
       => (/\ cachedState' = Remap(pushes'[1])
           /\ stateChanged' = <<Remap(pushes'[1])>>
           /\ pendingStateTarget' = <<>>)]_vars

\* moveToPosition has just failed on a rejected write after it had
\* registered its targets, no operation is in progress and nothing is left
\* pending: the notification that follows is adopted
C30_Witness ==
    /\ pendingStateTarget = <<>>
    /\ cachedState # <<>>
    /\ \A c \in DOMAIN calls : calls[c].status # "running"
    /\ \E c \in DOMAIN calls :
          /\ calls[c].op = "moveToPosition"
          /\ calls[c].status \notin {"free", "ok", "running", "AbortError"}
          /\ calls[c].registered
          /\ calls[c].writes # <<>>

\* C40: whenever a unit of work is executing, currentAbort is the abort
\* controller created for a unit that is executing, so that abortCurrent()
\* and clearQueue() signal a running unit.
C40_CurrentAbortIsRunningUnit ==
    Running(bleTaskQueue) # {} => bleTaskQueue.currentAbort \in Running(bleTaskQueue)

\* C31: in every reachable state, overlapping connection attempts included,
\* a Ready client has its table of services and characteristics completely
\* populated.
C31_ReadyImpliesPopulated ==
    isReady => ossmServices = "populated"

\* C37: a Connected event is dispatched only on a transition from not Ready
\* to Ready: between two consecutive Disconnected events (and before the
\* first one) at most one Connected event is dispatched.
C37_ConnectedOncePerConnection ==
    ~obs.connectedAgain

\* C32: on an indirect navigation the go commands of the path are sent one
\* after the other: navigateTo has at most one command in the queue or on
\* the transport, a further go command is enqueued only when the device has
\* echoed the one before it, and when a go command fails navigateTo settles
\* with the error of that command, no later command of the path having been
\* enqueued or written.
C32_GoCommandsInTurn ==
    \A c \in DOMAIN calls :
       LET call == calls[c]
           mine == {u \in Unsettled(bleTaskQueue) : bleTaskQueue.units[u].owner = c}
           sent == Len(call.writes)
       IN  call.op = "navigateTo"
           => /\ Cardinality(mine) <= 1
              /\ sent <= call.enqueued
              /\ call.enqueued <= sent + Cardinality(mine)
              /\ (call.enqueued >= 2 /\ mine # {})
                    => call.answer = <<Outcome("echo", call.writes[call.enqueued - 1])>>
              /\ (call.status \notin {"running", "ok"} /\ call.enqueued > 0)
                    => /\ mine = {}
                       /\ sent = call.enqueued
                       /\ call.answer # <<>>
                       /\ call.status = Classify(call.writes[sent], call.answer[1])

\* from SimplePenetration to StrokeEngine the device answered fail:go:menu:
\* navigateTo failed with OperationError and go:strokeEngine was not sent
C32_Witness ==
    \E c \in DOMAIN calls :
       /\ graph = OSSM_PAGE_NAVIGATION_GRAPH
       /\ calls[c].op = "navigateTo"
       /\ calls[c].args.from = "simplePenetration"
       /\ calls[c].args.page = "strokeEngine"
       /\ calls[c].status = "OperationError"
       /\ calls[c].writes = <<(<<"go", "menu">>)>>
       /\ calls[c].enqueued = 1
       /\ calls[c].answer = <<Outcome("echo", <<"fail", "go", "menu">>)>>

\* C33: in moveToPosition on a device primed for hold mode (pattern Insist,
\* sensation 100, stroke 100) whose cached depth differs from the last
\* commanded position, setSpeed(0) has been carried out before the depth
\* write (set:speed:0 was written, or the cached speed was 0 already) with
\* no other write before it, and the requested speed is written only after
\* setDepth; when the last commanded position equals the cached depth, the
\* requested speed is set first and the depth is written after it.
C33_HoldModeOrder ==
    \A c \in DOMAIN calls :
       LET call == calls[c]
           cs == call.capturedState[1]
           isDepth(i) == call.writes[i][1] = "set" /\ call.writes[i][2] = "depth"
           skippedKey(key) == \E k \in DOMAIN call.skipped : call.skipped[k] = key
       IN  (/\ call.op = "moveToPosition"
            /\ call.status = "running"
            /\ call.capturedState # <<>>
            /\ cs.pattern = 6 /\ cs.sensation = 100 /\ cs.stroke = 100)
           => IF lastFixedPosition = <<cs.depth>>
              THEN \A i \in DOMAIN call.writes :
                      isDepth(i)
                      => /\ i = 2
                         /\ call.writes[1] = <<"set", "speed", call.args.speed.int>>
              ELSE /\ \A i \in DOMAIN call.writes :
                         isDepth(i)
                         => /\ \A j \in 1..(i - 1) : call.writes[j] = <<"set", "speed", 0>>
                            /\ i = 2 \/ (i = 1 /\ cs.speed = 0)
                   /\ \A i \in DOMAIN call.writes :
                         (call.writes[i][2] = "speed" /\ call.writes[i][3] # 0)
                         => /\ call.writes[i][3] = call.args.speed.int
                            /\ \/ \E j \in 1..(i - 1) : isDepth(j)
                               \/ skippedKey("depth")

\* the device was primed and at depth 0, no position had been commanded:
\* set:speed:0, then the depth of position 1, then the requested speed 2
C33_Witness ==
    \E c \in DOMAIN calls :
       /\ calls[c].op = "moveToPosition"
       /\ calls[c].status = "running"
       /\ calls[c].capturedState # <<>>
       /\ calls[c].capturedState[1].stroke = 100
       /\ calls[c].capturedState[1].depth = 0
       /\ lastFixedPosition = <<>>
       /\ calls[c].writes = <<(<<"set", "speed", 0>>), <<"set", "depth", 0>>, <<"set", "speed", 2>>>>

\* ---------------------------------- the emergency stop under an operation
\* The device reports the stroke engine at speed 1 or 2, depth 0 or 1;
\* runStrokeEnginePattern to speed 2 at the same range is called while no
\* call is in progress, and stop() is called while it is in progress and no
\* other stop() is; setSpeed(1) is called while no call is in progress.
\* The link is lost and restored at any time.
NextE ==
    \/ /\ ~MicrotaskPendingQ(bleTaskQueue)
       /\ StatusNotification({j \in PushedJson : /\ j.state = "strokeEngine.idle"
                                                 /\ j.pattern = 6
                                                 /\ j.speed \in {1, 2}
                                                 /\ j.stroke = 1
                                                 /\ j.sensation = 0
                                                 /\ j.depth \in {0, 1}})
    \/ /\ \A c \in DOMAIN calls : calls[c].status # "running"
       /\ CallComposite("runStrokeEnginePattern",
                        {[data |-> [speed |-> 2, stroke |-> 1, depth |-> 1,
                                    sensation |-> 0, pattern |-> 6]]})
    \/ /\ \E c \in DOMAIN calls : calls[c].status = "running"
       /\ \A c \in DOMAIN calls : calls[c].status = "running" => calls[c].op # "stop"
       /\ StopCall
    \/ /\ \A c \in DOMAIN calls : calls[c].status # "running"
       /\ CallSetter({"speed"}, {Num(1, 0)})
    \/ StatePolled
    \/ UnitStarts
    \/ UnitRejected
    \/ UnitSettles
    \/ LinkLost
    \/ LinkRestored

SpecE == Init /\ [][NextE]_vars

\* C34: once stop() has been invoked, an operation that was in progress
\* then writes no further command to the device; in particular none of the
\* commands it writes afterwards sets a speed other than 0.
C34_NoWriteAfterStop ==
    \A c \in DOMAIN calls :
       calls[c].stoppedAt # <<>>
       => \A i \in DOMAIN calls[c].writes :
             i > calls[c].stoppedAt[1]
             => ~(/\ calls[c].writes[i][1] = "set"
                  /\ calls[c].writes[i][2] = "speed"
                  /\ calls[c].writes[i][3] # 0)

\* C35: the cached snapshot is empty at first and changes only in a step
\* that receives a status notification, to the remapped notification, which
\* that step dispatches in exactly one StateChanged; every StateChanged
\* carries the snapshot that has just been cached.  The cached snapshot is
\* therefore always the one of the last StateChanged, and no setter, stop,
\* connect or disconnect modifies it.
C35_CacheIsLastStateChanged ==
    /\ cachedState = <<>>
    /\ [][(cachedState' # cachedState \/ stateChanged' # <<>>)
          => (/\ pushes' # <<>>
              /\ cachedState' = Remap(pushes'[1])
              /\ stateChanged' = <<cachedState'>>)]_vars

\* runStrokeEnginePattern wrote a command and was overtaken by stop(); the
\* notification that has just arrived replaced a snapshot and was dispatched
C35_Witness ==
    /\ pushes # <<>>
    /\ cachedState = Remap(pushes[1])
    /\ stateChanged = <<cachedState>>
    /\ \E c \in DOMAIN calls :
          /\ calls[c].op = "runStrokeEnginePattern"
          /\ calls[c].status = "running"
          /\ calls[c].capturedState # <<>>
          /\ calls[c].capturedState[1] # cachedState
          /\ calls[c].writes # <<>>
          /\ calls[c].stoppedAt # <<>>

\* C36: while the command exchange of a setter is in flight, its field is
\* among the pending targets, even when an overlapping setter or composite
\* operation for the same field has completed in the meantime.  The
\* notifications of SpecP report speed 1, which is never the target 2 of
\* setSpeed and never supersedes it.
C36_PendingWhileInFlight ==
    \A c \in DOMAIN calls :
       (/\ calls[c].op = "set"
        /\ calls[c].status = "running"
        /\ \E u \in Running(bleTaskQueue) : bleTaskQueue.units[u].owner = c)
       => \E i \in DOMAIN pendingStateTarget :
             pendingStateTarget[i].key = calls[c].args.key

\* the speed the device has just acknowledged: unit u settled successfully
\* in the last step and was the write of stop() or a set:speed exchange
\* that the device echoed
AcknowledgedSpeed(u) ==
    LET unit == bleTaskQueue.units[u]
        answer == calls[unit.owner].answer
    IN  IF unit.status # "done" \/ unit.result # "ok" THEN <<>>
        ELSE IF unit.kind = "stop" THEN <<0>>
        ELSE IF /\ unit.kind = "cmd"
                /\ answer # <<>>
                /\ answer[1].kind = "echo"
                /\ Len(answer[1].text) = 3
                /\ answer[1].text[1] = "set"
                /\ answer[1].text[2] = "speed"
        THEN <<answer[1].text[3]>>
        ELSE <<>>

\* C38: setSpeed returns without writing only when the speed the device most
\* recently acknowledged or reported is the requested one; in particular,
\* called right after the device acknowledged a speed, it skips its write
\* only when it asks for that speed.
C38_SkipOnlyWhenCurrent ==
    [][\A c \in DOMAIN calls :
          (/\ calls'[c].op = "set"
           /\ calls'[c].args.key = "speed"
           /\ calls'[c].status = "ok"
           /\ calls'[c].writes = <<>>)
          => \A u \in UnitIds(bleTaskQueue) :
                AcknowledgedSpeed(u) \in {<<>>, <<calls'[c].args.value.int>>}]_vars

\* ------------------------------------------- PatternHelper (patterns.ts)
\* An optional argument is <<>> when undefined and <<value>> otherwise.  The
\* arguments are integers, so that the Number.isInteger tests pass.
MaxPercent == 100

MathRoundHalf_Down(n) == n \div 2

\* Math.round(n / 2) for an integer n >= 0: a half is rounded up
MathRoundHalf(n) == (n + 1) \div 2

\* Math.abs
MathAbs(n) == IF n < 0 THEN 0 - n ELSE n

\* new PatternHelper(patternId, minDepth, maxDepth, speed, intensity, invert)
\* (patterns.ts:12-83): the object made, or the error thrown
PatternHelper(patternId, minDepth, maxDepth, speed, intensity, invert) ==
    IF \/ patternId < 0
       \/ minDepth < 0 \/ minDepth > 100
       \/ maxDepth < 0 \/ maxDepth > 100
       \/ minDepth > maxDepth
       \/ speed < 0 \/ speed > 100
    THEN [error |-> "RangeError"]
    ELSE IF intensity # <<>> /\ (intensity[1] < 0 \/ intensity[1] > 100)
    THEN [error |-> "RangeError"]
    ELSE IF invert # <<>> /\ intensity = <<>>
    THEN [error |-> "Error"]
    ELSE [error |-> "none",
          patternId |-> patternId, minDepth |-> minDepth, maxDepth |-> maxDepth,
          intensity |-> intensity, invert |-> invert,
          speed |-> speed,
          pattern |-> patternId,
          depth |-> maxDepth,
          stroke |-> maxDepth - minDepth,
          sensation |-> IF invert # <<>>
                        THEN IF invert[1] THEN 50 - MathRoundHalf(intensity[1])
                             ELSE 50 + MathRoundHalf(intensity[1])
                        ELSE IF intensity # <<>> THEN intensity[1]
                        ELSE 100]

\* PatternHelper.fromPlayData(data, hasIntensity, canInvert) (patterns.ts:92-118)
fromPlayData(data, hasIntensity, canInvert) ==
    LET maxDepth == data.depth
        minDepth == data.depth - data.stroke
        intensity == IF canInvert THEN <<MathAbs((data.sensation - 50) * 2)>>
                     ELSE IF hasIntensity THEN <<data.sensation>>
                     ELSE <<>>
        invert == IF canInvert THEN <<data.sensation < 50>> ELSE <<>>
    IN  PatternHelper(data.pattern, minDepth, maxDepth, data.speed, intensity, invert)

\* the application makes a PatternHelper: TeasingPounding or HalfNHalf,
\* depths 0, 50 or 100, speed 0 or 100, every intensity up to one above the
\* range or none, a direction or none
NewPatternHelper ==
    /\ patternHelper = <<>>
    /\ \E patternId \in {1, 3}, minDepth \in {0, 50, 100}, maxDepth \in {0, 50, 100},
          speed \in {0, 100},
          intensity \in {<<>>} \cup {<<i>> : i \in 0..(MaxPercent + 1)},
          invert \in {<<>>, <<TRUE>>, <<FALSE>>} :
          patternHelper' =
              [made |-> PatternHelper(patternId, minDepth, maxDepth, speed, intensity, invert),
               back |-> <<>>]
    /\ UNCHANGED <<bleTaskQueue, clientVars, sessionVars>>

\* the application converts the play data of the helper back
FromPlayData ==
    /\ patternHelper # <<>>
    /\ patternHelper.made.error = "none"
    /\ patternHelper.back = <<>>
    /\ \E hasIntensity, canInvert \in BOOLEAN :
          patternHelper' =
              [patternHelper EXCEPT
                  !.back = <<[hasIntensity |-> hasIntensity, canInvert |-> canInvert,
                              helper |-> fromPlayData(patternHelper.made,
                                                      hasIntensity, canInvert)]>>]
    /\ UNCHANGED <<bleTaskQueue, clientVars, sessionVars>>

NextH ==
    \/ NewPatternHelper
    \/ FromPlayData

SpecH == Init /\ [][NextH]_vars

\* a helper made with a direction, and its play data converted back with
\* fromPlayData(data, true, true)
Reversed ==
    /\ patternHelper # <<>>
    /\ patternHelper.made.error = "none"
    /\ patternHelper.made.invert # <<>>
    /\ patternHelper.back # <<>>
    /\ patternHelper.back[1].hasIntensity
    /\ patternHelper.back[1].canInvert

\* C39: a helper made with a direction has an integer sensation from 0 to
\* 100, and fromPlayData(data, true, true) recovers its minDepth, maxDepth,
\* speed, intensity and invert.
C39_RoundTrip ==
    /\ (/\ patternHelper # <<>>
        /\ patternHelper.made.error = "none"
        /\ patternHelper.made.invert # <<>>)
       => patternHelper.made.sensation \in 0..100
    /\ Reversed
       => LET made == patternHelper.made
              back == patternHelper.back[1].helper
          IN  /\ back.error = "none"
              /\ back.minDepth = made.minDepth
              /\ back.maxDepth = made.maxDepth
              /\ back.speed = made.speed
              /\ back.intensity = made.intensity
              /\ back.invert = made.invert

\* C39 as the code has it: a helper made with a direction has an integer
\* sensation from 0 to 100, and fromPlayData(data, true, true) recovers its
\* minDepth, maxDepth, speed and sensation; it recovers an even intensity
\* and gives the next even number for an odd one, and it recovers the
\* direction unless the intensity is 0, which is converted back as not
\* inverted.
C39_RoundTripHalved ==
    /\ (/\ patternHelper # <<>>
        /\ patternHelper.made.error = "none"
        /\ patternHelper.made.invert # <<>>)
       => patternHelper.made.sensation \in 0..100
    /\ Reversed
       => LET made == patternHelper.made
              back == patternHelper.back[1].helper
          IN  /\ back.error = "none"
              /\ back.minDepth = made.minDepth
              /\ back.maxDepth = made.maxDepth
              /\ back.speed = made.speed
              /\ back.sensation = made.sensation
              /\ back.intensity = IF made.intensity[1] % 2 = 0 THEN made.intensity
                                  ELSE <<made.intensity[1] + 1>>
              /\ back.invert = <<made.invert[1] /\ made.intensity[1] > 0>>

\* intensity 99, inverted, from depth 50 to 100: sensation 0, converted back
\* as intensity 100, inverted, with the same depths
C39_Witness ==
    /\ Reversed
    /\ patternHelper.made.intensity = <<99>>
    /\ patternHelper.made.invert = <<TRUE>>
    /\ patternHelper.made.minDepth = 50
    /\ patternHelper.made.maxDepth = 100
    /\ patternHelper.made.sensation = 0
    /\ patternHelper.back[1].helper.intensity = <<100>>
    /\ patternHelper.back[1].helper.invert = <<TRUE>>
    /\ patternHelper.back[1].helper.minDepth = 50

====
